---- MODULE Spec2Model ----
(***************************************************************************)
(* Elbob dashboard API: exchange of a Google access token for a signed     *)
(* session credential (routes/auth.js), the server-side token store        *)
(* (config/tokenStore.js), the sheet-backed roster (config/userStore.js),  *)
(* the JWT middleware (middleware/auth.js) and the spreadsheet proxy       *)
(* (routes/sheets.js).                                                     *)
(*                                                                         *)
(* Strings the code normalises (emails) are sequences of one-character     *)
(* strings, so that toLowerCase() and trim() are computed.  Time is in     *)
(* milliseconds, as Date.now().                                            *)
(***************************************************************************)
EXTENDS Integers, Sequences, FiniteSets, TLC

\* ------------------------------------------------------------------ bounds

\* Number of clock advances in one behaviour.
MaxTicks == 2

\* Number of upstream calls of one request among which one may fail.
MaxFaultAt == 2
MaxRows == 1

\* The amount by which the clock advances between two requests: 56 min, past
\* the roster TTL and the Google-token TTL and within the credential's
\* validity, which two advances exceed.
Steps == {56 * 60 * 1000}

\* ------------------------------------------------------------- strings

LowerChar(c) ==
    CASE c = "B" -> "b"
      [] c = "U" -> "u"
      [] OTHER -> c

\* String.prototype.toLowerCase
toLowerCase(s) == [i \in 1..Len(s) |-> LowerChar(s[i])]

RECURSIVE trimStart(_)
trimStart(s) ==
    IF s # <<>> /\ Head(s) = " " THEN trimStart(Tail(s)) ELSE s

RECURSIVE trimEnd(_)
trimEnd(s) ==
    IF s # <<>> /\ s[Len(s)] = " " THEN trimEnd(SubSeq(s, 1, Len(s) - 1)) ELSE s

\* String.prototype.trim
trim(s) == trimEnd(trimStart(s))

\* (x || '').toLowerCase().trim(): the identity key of an email.
NormEmail(s) == trim(toLowerCase(s))

\* ------------------------------------------------------- configuration

\* The empty string; also stands for null where the code only tests truthiness.
Empty == <<>>

\* The two normalised identities of the model.
B == <<"b">>
U == <<"u">>
Emails == {B, U}

\* process.env.ADMIN_EMAILS after split(','): " B" and an empty entry.
ADMIN_EMAILS == << <<" ", "B">>, <<>> >>

\* .split(',').map(e => e.trim().toLowerCase()).filter(Boolean)
BOOTSTRAP_ADMINS ==
    {toLowerCase(trim(ADMIN_EMAILS[i])) : i \in 1..Len(ADMIN_EMAILS)} \ {Empty}

\* process.env.JWT_SECRET, and a secret the server does not hold.
JWT_SECRET == "secret"
OtherSecret == "forged"

\* process.env.JWT_EXPIRES_IN, here '1h', in seconds.
JWT_EXPIRES_IN == 3600

GOOGLE_TOKEN_TTL_MS == 55 * 60 * 1000
TTL_MS == 60000

\* ------------------------------------------------------ Google's side

\* The access tokens clients can present.
GTokens == {"gB1", "gB2", "gU1", "gN"}

\* The characters of the access tokens.
TokenChars(tok) ==
    CASE tok = "gB1" -> <<"g", "B", "1">>
      [] tok = "gB2" -> <<"g", "B", "2">>
      [] tok = "gU1" -> <<"g", "U", "1">>
      [] tok = "gN" -> <<"g", "N">>
      [] OTHER -> <<"x">>

\* The profile the identity endpoint returns for a token it accepts:
\* profile.email (Empty when the profile has no email).
ProfileEmail(tok) ==
    CASE tok = "gB1" -> <<"B">>
      [] tok = "gB2" -> <<"b", " ">>
      [] tok = "gU1" -> <<" ", "U">>
      [] OTHER -> Empty

\* What the identity endpoint can answer for a bearer: success only for a
\* token Google issued; any token may have expired or been revoked.
IdAnswers(bearer) ==
    IF bearer \in GTokens THEN {"ok", "notok", "throw"} ELSE {"notok", "throw"}

\* ------------------------------------------------------------- state

VARIABLES
    store,       \* tokenStore's Map: email -> [googleToken, expiresAt]
    adminEmail,  \* userStore's adminEmail (Empty for null)
    cache,       \* userStore's cache: [isNull, rows]
    cacheTime,   \* userStore's cacheTime
    sheet,       \* the users tab of the spreadsheet: [tab, values]
    creds,       \* the credential (signed JWT) each client holds: email -> token
    now,         \* Date.now()
    ticks,       \* clock advances so far
    resp,        \* the last request and its response
    tasks,       \* the calls in flight, each at one of its awaits
    cachedToken, \* serviceAccount's cachedToken (NoToken for null)
    tokenExpiresAt, \* serviceAccount's tokenExpiresAt, in seconds
    serviceKey,  \* process.env.GOOGLE_SERVICE_ACCOUNT_KEY ("" when not set)
    log          \* the calls made to the token vault so far, with their results

\* The variables the routes of the API never touch.
svcVars == <<cachedToken, tokenExpiresAt, serviceKey, log>>

vars == <<store, adminEmail, cache, cacheTime, sheet, creds, now, ticks, resp, tasks,
          svcVars>>

\* An access token of the service account: the second its exchange started,
\* the millisecond it was issued and the lifetime granted; NoToken is null.
NoToken == [started |-> 0, issued |-> 0, expires_in |-> 0]

\* The service-account module as loaded, and no call of the vault made.
NoService ==
    /\ cachedToken = NoToken
    /\ tokenExpiresAt = 0
    /\ serviceKey = ""
    /\ log = <<>>

\* ------------------------------------------------------- small helpers

Put(f, k, v) == [x \in (DOMAIN f) \cup {k} |-> IF x = k THEN v ELSE f[x]]
Remove(f, k) == [x \in (DOMAIN f) \ {k} |-> f[x]]
NoStore == [x \in {} |-> 0]

NullCache == [isNull |-> TRUE, rows |-> <<>>]

\* A result of an async function: the world after it, whether it threw,
\* and the value returned or the message thrown.
Ret(w, v) == [w |-> w, threw |-> FALSE, val |-> v, err |-> ""]
Throw(w, e) == [w |-> w, threw |-> TRUE, val |-> 0, err |-> e]

\* ---------------------------------------------------------- tokenStore

\* getKey(): SHA-256 of the secret, as a term.
GetKey(secret) == <<"sha256", secret>>

\* The byte lengths of the nonce and of the authentication tag.
IV_BYTES == 12
TAG_BYTES == 16

\* What decryptToken returns: null, or a string.
Null == [null |-> TRUE, str |-> <<>>]
Plain(chars) == [null |-> FALSE, str |-> chars]

\* randomBytes(IV_BYTES): the bytes of the draw numbered id.
RandomBytes(id) == [i \in 1..IV_BYTES |-> [k |-> "rnd", id |-> id, i |-> i]]

\* The nonce as the cipher mixes it in: the draw it is, 0 for any other bytes.
IvOf(iv) == IF \E id \in 1..2 : iv = RandomBytes(id) THEN iv[1].id ELSE 0

\* A byte that is none of the bytes an encryption produced.
Garbled == [k |-> "garbled"]

\* cipher.update(plaintext, 'utf8'): the UTF-8 bytes of a string of ASCII
\* characters, and Buffer.toString() back (U+FFFD, here "?", for a byte
\* that is no character).
Utf8(chars) == [i \in 1..Len(chars) |-> [k |-> "utf8", c |-> chars[i]]]
Utf8Decode(bytes) ==
    [i \in 1..Len(bytes) |-> IF bytes[i].k = "utf8" THEN bytes[i].c ELSE "?"]

\* Faulty variant of the cipher: the key stream does not depend on the nonce.
GcmEncrypt_NoNonce(key, iv, p) ==
    [i \in 1..Len(p) |-> [k |-> "ct", key |-> key, iv |-> 0, i |-> i, p |-> p[i]]]

\* AES-256-GCM in counter mode, as terms: byte i of the ciphertext is bound
\* to the key, the nonce and its position, and only they give it back.
GcmEncrypt(key, iv, p) ==
    [i \in 1..Len(p) |-> [k |-> "ct", key |-> key, iv |-> IvOf(iv), i |-> i, p |-> p[i]]]
GcmDecrypt(key, iv, ct) ==
    [i \in 1..Len(ct) |->
        IF ct[i].k = "ct" /\ ct[i].key = key /\ ct[i].iv = IvOf(iv) /\ ct[i].i = i
        THEN ct[i].p ELSE Garbled]

\* cipher.getAuthTag(): the 16 bytes that authenticate key, nonce and ciphertext.
GcmTag(key, iv, ct) ==
    [j \in 1..TAG_BYTES |-> [k |-> "tag", key |-> key, iv |-> IvOf(iv), ct |-> ct, j |-> j]]

\* A character of a base64url string carries three pairs of bits; a byte is
\* four pairs.  ZeroPair is a pair of padding bits.
ZeroPair == [v |-> [k |-> "zero"], q |-> 0]
BitPairs(buf) ==
    [n \in 1..(4 * Len(buf)) |-> [v |-> buf[(n + 3) \div 4], q |-> ((n - 1) % 4) + 1]]

\* buf.toString('base64url'): the pairs of the bytes, three to a character,
\* the last character filled with zero bits; no padding character.
ToBase64Url(buf) ==
    [s \in 1..((4 * Len(buf) + 2) \div 3) |->
        [t \in 1..3 |-> IF 3 * (s - 1) + t <= 4 * Len(buf)
                        THEN BitPairs(buf)[3 * (s - 1) + t] ELSE ZeroPair]]

\* A character that is not in the base64url alphabet.
InvalidChar == <<>>
IsBase64Char(c) == c # InvalidChar

\* The byte four consecutive pairs make.
ByteOf(a, b, c, d) ==
    IF a.v = b.v /\ b.v = c.v /\ c.v = d.v /\ a.q = 1 /\ b.q = 2 /\ c.q = 3 /\ d.q = 4
    THEN a.v ELSE Garbled

\* The pairs of a string of base64url characters.
PairsOf(str) == [n \in 1..(3 * Len(str)) |-> str[(n + 2) \div 3][((n - 1) % 3) + 1]]

\* Buffer.from(blob, 'base64url'): characters off the alphabet are skipped,
\* every four pairs make a byte, and the bits left over are dropped.
FromBase64Url(blob) ==
    [b \in 1..((3 * Len(SelectSeq(blob, IsBase64Char))) \div 4) |->
        ByteOf(PairsOf(SelectSeq(blob, IsBase64Char))[4 * b - 3],
               PairsOf(SelectSeq(blob, IsBase64Char))[4 * b - 2],
               PairsOf(SelectSeq(blob, IsBase64Char))[4 * b - 1],
               PairsOf(SelectSeq(blob, IsBase64Char))[4 * b])]

\* Faulty variant of subarray: the byte at the offset end is included.
Subarray_Inclusive(buf, start, end) ==
    SubSeq(buf, start + 1, IF end + 1 < Len(buf) THEN end + 1 ELSE Len(buf))

\* buf.subarray(start, end)
Subarray(buf, start, end) ==
    SubSeq(buf, start + 1, IF end < Len(buf) THEN end ELSE Len(buf))

\* encryptToken under the key of a secret, the nonce iv drawn by randomBytes:
\* base64url of iv, tag and ciphertext.
EncryptUnder(secret, plaintext, iv) ==
    ToBase64Url(iv \o GcmTag(GetKey(secret), iv, GcmEncrypt(GetKey(secret), iv, Utf8(plaintext)))
                   \o GcmEncrypt(GetKey(secret), iv, Utf8(plaintext)))

\* encryptToken(plaintext)
EncryptToken(plaintext, iv) == EncryptUnder(JWT_SECRET, plaintext, iv)

\* Faulty variant of the decryption: the tag is not verified.
DecryptBuffer_NoTag(key, iv, tag, ciphertext) ==
    IF Len(iv) = 0 THEN [threw |-> TRUE, val |-> <<>>]
    ELSE [threw |-> FALSE, val |-> Utf8Decode(GcmDecrypt(key, iv, ciphertext))]

\* The body of the try block of decryptToken on the decoded buffer: the
\* cipher refuses an empty nonce and a tag of a length GCM does not have,
\* and final() throws when the tag is not the one of key, nonce and
\* ciphertext.
DecryptBuffer(key, iv, tag, ciphertext) ==
    IF Len(iv) = 0 THEN [threw |-> TRUE, val |-> <<>>]
    ELSE IF Len(tag) \notin {4, 8, 12, 13, 14, 15, 16} THEN [threw |-> TRUE, val |-> <<>>]
    ELSE IF tag # SubSeq(GcmTag(key, iv, ciphertext), 1, Len(tag))
    THEN [threw |-> TRUE, val |-> <<>>]
    ELSE [threw |-> FALSE, val |-> Utf8Decode(GcmDecrypt(key, iv, ciphertext))]

\* decryptToken with the key of a secret: null when the try block throws.
DecryptUnder(secret, blob) ==
    IF DecryptBuffer(GetKey(secret),
                     Subarray(FromBase64Url(blob), 0, IV_BYTES),
                     Subarray(FromBase64Url(blob), IV_BYTES, IV_BYTES + TAG_BYTES),
                     Subarray(FromBase64Url(blob), IV_BYTES + TAG_BYTES,
                              Len(FromBase64Url(blob)))).threw
    THEN Null
    ELSE Plain(DecryptBuffer(GetKey(secret),
                     Subarray(FromBase64Url(blob), 0, IV_BYTES),
                     Subarray(FromBase64Url(blob), IV_BYTES, IV_BYTES + TAG_BYTES),
                     Subarray(FromBase64Url(blob), IV_BYTES + TAG_BYTES,
                              Len(FromBase64Url(blob)))).val)

\* decryptToken(blob)
DecryptToken(blob) == DecryptUnder(JWT_SECRET, blob)

\* tokenStore.set(userId, googleToken)
TokenStoreSet(st, userId, googleToken, t) ==
    Put(st, userId, [googleToken |-> googleToken,
                     expiresAt |-> t + GOOGLE_TOKEN_TTL_MS])

\* Faulty variant of tokenStore.get: the expiry of the entry is not looked at.
TokenStoreGet_NoExpiry(st, userId, t) ==
    IF userId \notin DOMAIN st THEN [store |-> st, token |-> ""]
    ELSE [store |-> st, token |-> st[userId].googleToken]

\* tokenStore.get(userId) as every caller of the repository calls it (without
\* req): the entry's token, or "" for null; an expired entry is deleted.
TokenStoreGet(st, userId, t) ==
    IF userId \notin DOMAIN st THEN [store |-> st, token |-> ""]
    ELSE IF t > st[userId].expiresAt
         THEN [store |-> Remove(st, userId), token |-> ""]
         ELSE [store |-> st, token |-> st[userId].googleToken]

\* tokenStore.delete(userId)
TokenStoreDelete(st, userId) == Remove(st, userId)

\* tokenStore.isExpiringSoon(userId)
IsExpiringSoon(st, userId, t) ==
    IF userId \notin DOMAIN st THEN TRUE
    ELSE (st[userId].expiresAt - t) < 5 * 60 * 1000

\* ------------------------------------------------- the spreadsheet API

\* Row 1 of the users tab as ensureTab writes it (columns email | role; the
\* columns addedBy | addedAt are never read in a decision and are left out).
USERS_HEADERS == [email |-> <<"email">>, role |-> "role"]

\* sheetId of the users tab and of the first (data) tab.
UsersSheetId == 7
DataSheetId == 0

RemoveAt(s, i) == SubSeq(s, 1, i - 1) \o SubSeq(s, i + 1, Len(s))

BlankRow == [email |-> Empty, role |-> ""]

\* values.update on cell B<rowIndex>: rows up to rowIndex come to exist.
SetRole(values, rowIndex, role) ==
    [i \in 1..(IF rowIndex > Len(values) THEN rowIndex ELSE Len(values)) |->
        IF i = rowIndex
        THEN [email |-> IF i <= Len(values) THEN values[i].email ELSE Empty,
              role |-> role]
        ELSE IF i <= Len(values) THEN values[i] ELSE BlankRow]

\* values.update on row <rowIndex>: rows up to rowIndex come to exist.
SetRow(values, rowIndex, row) ==
    [i \in 1..(IF rowIndex > Len(values) THEN rowIndex ELSE Len(values)) |->
        IF i = rowIndex THEN row
        ELSE IF i <= Len(values) THEN values[i] ELSE BlankRow]

\* What the spreadsheet API does with an accepted call on the users tab:
\* [status, sheet, data].
SheetsApi(sh, call) ==
    CASE call.tab # "users" ->
            [status |-> 200, sheet |-> sh, data |-> FALSE]
      [] call.api = "meta" ->
            [status |-> 200, sheet |-> sh, data |-> sh.tab]
      [] call.api = "addSheet" ->
            IF sh.tab THEN [status |-> 400, sheet |-> sh, data |-> FALSE]
            ELSE [status |-> 200, sheet |-> [tab |-> TRUE, values |-> <<>>],
                  data |-> TRUE]
      [] call.api = "putHeaders" ->
            IF ~sh.tab THEN [status |-> 400, sheet |-> sh, data |-> FALSE]
            ELSE [status |-> 200,
                  sheet |-> [sh EXCEPT !.values =
                      IF sh.values = <<>> THEN <<USERS_HEADERS>>
                      ELSE <<USERS_HEADERS>> \o Tail(sh.values)],
                  data |-> TRUE]
      [] call.api = "readRows" ->
            IF ~sh.tab THEN [status |-> 400, sheet |-> sh, data |-> <<>>]
            ELSE [status |-> 200, sheet |-> sh, data |-> sh.values]
      [] call.api = "append" ->
            IF ~sh.tab THEN [status |-> 400, sheet |-> sh, data |-> FALSE]
            ELSE [status |-> 200,
                  sheet |-> [sh EXCEPT !.values = Append(sh.values, call.row)],
                  data |-> TRUE]
      [] call.api = "deleteRow" ->
            IF ~sh.tab THEN [status |-> 400, sheet |-> sh, data |-> FALSE]
            ELSE [status |-> 200,
                  sheet |-> [sh EXCEPT !.values =
                      IF call.rowIndex <= Len(sh.values)
                      THEN RemoveAt(sh.values, call.rowIndex) ELSE sh.values],
                  data |-> TRUE]
      [] call.api = "putRow" ->
            IF ~sh.tab THEN [status |-> 400, sheet |-> sh, data |-> FALSE]
            ELSE [status |-> 200,
                  sheet |-> [sh EXCEPT !.values =
                      SetRow(sh.values, call.rowIndex, call.row)],
                  data |-> TRUE]
      [] call.api = "putRole" ->
            IF ~sh.tab THEN [status |-> 400, sheet |-> sh, data |-> FALSE]
            ELSE [status |-> 200,
                  sheet |-> [sh EXCEPT !.values =
                      SetRole(sh.values, call.rowIndex, call.role)],
                  data |-> TRUE]
      [] OTHER -> [status |-> 200, sheet |-> sh, data |-> FALSE]

\* The calls userStore makes, all on the users tab.
Call(api) == [api |-> api, tab |-> "users"]
\* The tab a sheetId designates.
TabOf(sheetId) == IF sheetId = UsersSheetId THEN "users" ELSE "data"

\* The row of the tab that a call names in its range (0 when it names none).
RowTargeted(call) == IF "rowIndex" \in DOMAIN call THEN call.rowIndex ELSE 0

\* The answer r of the API to a call, logged with the token that was sent
\* and the row it names.
UpstreamAnswer(w, call, token, r) ==
    [w |-> [w EXCEPT !.sheet = r.sheet,
                     !.calls = Append(w.calls, [api |-> call.api, tab |-> call.tab,
                                                token |-> token, status |-> r.status,
                                                row |-> RowTargeted(call)])],
     status |-> r.status, data |-> r.data]

\* One fetch() to the spreadsheet API with a bearer token.  The call is
\* logged; the fault plan of the request makes its at-th call fail with
\* the planned status and no effect.
Upstream(w, call, token) ==
    UpstreamAnswer(w, call, token,
                   IF w.fault.at = Len(w.calls) + 1
                   THEN [status |-> w.fault.status, sheet |-> w.sheet, data |-> FALSE]
                   ELSE SheetsApi(w.sheet, call))

\* ----------------------------------------------------------- userStore

\* setAdminEmail(email)
SetAdminEmail(w, email) == [w EXCEPT !.adminEmail = email]

\* const token = adminEmail ? tokenStore.get(adminEmail) : null
AdminToken(w) ==
    IF w.adminEmail # Empty
    THEN TokenStoreGet(w.store, w.adminEmail, w.now)
    ELSE [store |-> w.store, token |-> ""]

\* Faulty variant of sheetFetch: a 401 leaves adminEmail as it is.
SheetFetchAnswer_KeepPointer(u) ==
    IF u.status # 200 THEN Throw(u.w, "sheets error") ELSE Ret(u.w, u.data)

\* sheetFetch after the fetch: u is the answer of the API.
SheetFetchAnswer(u) ==
    IF u.status # 200
    THEN Throw(IF u.status = 401 THEN [u.w EXCEPT !.adminEmail = Empty] ELSE u.w,
               "sheets error")
    ELSE Ret(u.w, u.data)

\* sheetFetch with g, the admin token read from the token store.
SheetFetchAs(w, call, g) ==
    IF g.token = "" THEN Throw([w EXCEPT !.store = g.store], "no admin")
    ELSE SheetFetchAnswer(Upstream([w EXCEPT !.store = g.store], call, g.token))

\* sheetFetch(url, options)
SheetFetch(w, call) == SheetFetchAs(w, call, AdminToken(w))

\* ensureTab after the tab was added.
EnsureTabAdded(add) ==
    IF add.threw THEN add ELSE SheetFetch(add.w, Call("putHeaders"))

\* ensureTab after the metadata was read.
EnsureTabMeta(meta) ==
    IF meta.threw THEN meta
    ELSE IF meta.val THEN Ret(meta.w, TRUE)
    ELSE EnsureTabAdded(SheetFetch(meta.w, Call("addSheet")))

\* ensureTab()
EnsureTab(w) == EnsureTabMeta(SheetFetch(w, Call("meta")))

\* row[1] || 'user'
RoleOf(cell) == IF cell = "" THEN "user" ELSE cell

\* data.values.slice(1).map(...).filter(u => u.email)
RECURSIVE MapRows(_, _)
MapRows(values, i) ==
    IF i > Len(values) THEN <<>>
    ELSE IF NormEmail(values[i].email) = Empty THEN MapRows(values, i + 1)
    ELSE <<[rowIndex |-> i, email |-> NormEmail(values[i].email),
            role |-> RoleOf(values[i].role)]>>
         \o MapRows(values, i + 1)

\* readAllRows after the values were read.
ReadAllRowsData(data) ==
    IF data.threw THEN data
    ELSE IF Len(data.val) < 2 THEN Ret(data.w, <<>>)
    ELSE Ret(data.w, MapRows(data.val, 2))

\* readAllRows()
ReadAllRows(w) == ReadAllRowsData(SheetFetch(w, Call("readRows")))

\* refreshCache after the rows were read:
\* cache = new Map(rows.map(u => [u.email, u])); cacheTime = Date.now()
RefreshCacheRows(rows) ==
    IF rows.threw THEN rows
    ELSE Ret([rows.w EXCEPT !.cache = [isNull |-> FALSE, rows |-> rows.val],
                            !.cacheTime = rows.w.now],
             rows.val)

\* refreshCache after ensureTab.
RefreshCacheTab(t) == IF t.threw THEN t ELSE RefreshCacheRows(ReadAllRows(t.w))

\* refreshCache()
RefreshCache(w) == RefreshCacheTab(EnsureTab(w))

\* Map.get(e) on a Map built from rows: the last row of that email.
RECURSIVE CacheGet(_, _)
CacheGet(rows, e) ==
    IF rows = <<>> THEN [found |-> FALSE, email |-> e, role |-> ""]
    ELSE IF rows[Len(rows)].email = e
         THEN [found |-> TRUE, email |-> e, role |-> rows[Len(rows)].role]
         ELSE CacheGet(SubSeq(rows, 1, Len(rows) - 1), e)

NotFound(e) == [found |-> FALSE, email |-> e, role |-> ""]

\* Faulty variant of the staleness test: the age of the cache is not looked at.
CacheStale_NullOnly(w) == w.cache.isNull

CacheStale(w) == w.cache.isNull \/ w.now - w.cacheTime > TTL_MS

\* if (!cache || Date.now() - cacheTime > TTL_MS) await refreshCache()
Fresh(w) == IF CacheStale(w) THEN RefreshCache(w) ELSE Ret(w, <<>>)

\* return cache?.get(e) || null, r being the outcome of the refresh.
LookupCached(r, e) ==
    IF r.threw THEN r
    ELSE Ret(r.w, IF r.w.cache.isNull THEN NotFound(e) ELSE CacheGet(r.w.cache.rows, e))

\* Faulty variant of lookupUser past the bootstrap check: the roster is read
\* whether or not an admin token is available.
LookupRoster_NoTokenCheck(w, e, g) ==
    LookupCached(Fresh([w EXCEPT !.store = g.store]), e)

\* lookupUser past the bootstrap check, g being the admin token.
LookupRoster(w, e, g) ==
    IF g.token = "" THEN Ret([w EXCEPT !.store = g.store], NotFound(e))
    ELSE LookupCached(Fresh([w EXCEPT !.store = g.store]), e)

\* Faulty variant of lookupUser: an identity the roster does not list
\* resolves to role user, as in the revision that had no roster.
LookupCached_DefaultUser(r, e) ==
    IF r.threw THEN r
    ELSE Ret(r.w, IF ~r.w.cache.isNull /\ CacheGet(r.w.cache.rows, e).found
                  THEN CacheGet(r.w.cache.rows, e)
                  ELSE [found |-> TRUE, email |-> e, role |-> "user"])

LookupRoster_DefaultUser(w, e, g) ==
    IF g.token = "" THEN Ret([w EXCEPT !.store = g.store], NotFound(e))
    ELSE LookupCached_DefaultUser(Fresh([w EXCEPT !.store = g.store]), e)

LookupUser_DefaultUser(w, email) ==
    IF NormEmail(email) \in BOOTSTRAP_ADMINS
    THEN Ret(w, [found |-> TRUE, email |-> NormEmail(email), role |-> "admin"])
    ELSE LookupRoster_DefaultUser(w, NormEmail(email), AdminToken(w))

\* Faulty variant of lookupUser: the bootstrap list is not consulted, every
\* identity is resolved through the roster.
LookupUser_RosterOnly(w, email) == LookupRoster(w, NormEmail(email), AdminToken(w))

\* Faulty variant of lookupUser: a cache that was filled once is used
\* whatever its age.
LookupRoster_NoTtl(w, e, g) ==
    IF g.token = "" THEN Ret([w EXCEPT !.store = g.store], NotFound(e))
    ELSE LookupCached(IF w.cache.isNull THEN RefreshCache([w EXCEPT !.store = g.store])
                      ELSE Ret([w EXCEPT !.store = g.store], <<>>), e)

LookupUser_NoTtl(w, email) ==
    IF NormEmail(email) \in BOOTSTRAP_ADMINS
    THEN Ret(w, [found |-> TRUE, email |-> NormEmail(email), role |-> "admin"])
    ELSE LookupRoster_NoTtl(w, NormEmail(email), AdminToken(w))

\* lookupUser(email)
LookupUser(w, email) ==
    LET e == NormEmail(email)
    IN IF e \in BOOTSTRAP_ADMINS
       THEN Ret(w, [found |-> TRUE, email |-> e, role |-> "admin"])
       ELSE LookupRoster(w, e, AdminToken(w))

\* isReady()
IsReady(w) ==
    LET g == AdminToken(w)
    IN [w |-> [w EXCEPT !.store = g.store], val |-> g.token # ""]

\* ------------------------------------------------- session credentials

\* Date.now() in seconds, as jsonwebtoken stamps iat and exp.
Seconds(t) == t \div 1000

\* jwt.sign(payload, secret, { expiresIn }): the token is the payload with
\* iat and exp, and the signature of the secret (not encrypted: the client
\* reads every claim).
JwtSign(payload, secret, t) ==
    [payload |-> payload, iat |-> Seconds(t),
     exp |-> Seconds(t) + JWT_EXPIRES_IN, sig |-> secret]

\* jwt.verify(token, secret): "ok", "expired" (TokenExpiredError) or
\* "invalid"; the signature is checked before the expiry.
JwtVerify(token, secret, t) ==
    IF token.sig # secret THEN "invalid"
    ELSE IF Seconds(t) >= token.exp THEN "expired"
    ELSE "ok"

NoUser == [userId |-> Empty, name |-> Empty, email |-> Empty,
           picture |-> Empty, role |-> ""]

\* A credential made by a client that does not know JWT_SECRET.
ForgedCred(t) ==
    JwtSign([userId |-> U, name |-> U, email |-> U, picture |-> Empty,
             role |-> "admin"], OtherSecret, t)

\* The Authorization headers a request can carry.
NoHeader == [kind |-> "none"]
BadHeader == [kind |-> "malformed"]
Bearer(c) == [kind |-> "bearer", token |-> c]
Headers ==
    {NoHeader, BadHeader, Bearer(ForgedCred(now))}
    \cup {Bearer(creds[e]) : e \in DOMAIN creds}

\* Faulty variant of requireAuth: the signature is checked, the expiry is not.
RequireAuth_IgnoreExpiry(hdr, t) ==
    IF hdr.kind # "bearer"
    THEN [next |-> FALSE, status |-> 401, code |-> "", user |-> NoUser]
    ELSE IF JwtVerify(hdr.token, JWT_SECRET, t) \in {"ok", "expired"}
         THEN [next |-> TRUE, status |-> 200, code |-> "", user |-> hdr.token.payload]
         ELSE [next |-> FALSE, status |-> 401, code |-> "", user |-> NoUser]

\* Faulty variant of requireAuth: the expiry is checked, the signature is not.
RequireAuth_AnySignature(hdr, t) ==
    IF hdr.kind # "bearer"
    THEN [next |-> FALSE, status |-> 401, code |-> "", user |-> NoUser]
    ELSE IF Seconds(t) < hdr.token.exp
         THEN [next |-> TRUE, status |-> 200, code |-> "", user |-> hdr.token.payload]
         ELSE [next |-> FALSE, status |-> 401, code |-> "TOKEN_EXPIRED", user |-> NoUser]

\* requireAuth(req, res, next): [next, status, code, user]
RequireAuth(hdr, t) ==
    IF hdr.kind # "bearer"
    THEN [next |-> FALSE, status |-> 401, code |-> "", user |-> NoUser]
    ELSE LET v == JwtVerify(hdr.token, JWT_SECRET, t)
         IN IF v = "ok"
            THEN [next |-> TRUE, status |-> 200, code |-> "", user |-> hdr.token.payload]
            ELSE [next |-> FALSE, status |-> 401,
                  code |-> IF v = "expired" THEN "TOKEN_EXPIRED" ELSE "",
                  user |-> NoUser]

\* ---------------------------------------------------- request bodies

\* req.body.googleAccessToken: absent, a string (possibly empty), a number.
Undefined == [type |-> "undefined", str |-> ""]
Str(x) == [type |-> "string", str |-> x]
Num(x) == [type |-> "number", str |-> x]

\* Faulty variant of the truthiness test: only undefined is falsy, the empty
\* string is not.
Falsy_OnlyUndefined(v) == v.type = "undefined"

\* !v for these values
Falsy(v) == v.type = "undefined" \/ (v.type = "string" /\ v.str = "") \/ v = Num("0")

TokenInputs == {Undefined, Str(""), Num("42")} \cup {Str(t) : t \in GTokens}

\* The world a handler runs in: the process state, the spreadsheet, the
\* upstream calls made so far by this request and its fault plan.
World(fault) ==
    [store |-> store, adminEmail |-> adminEmail, cache |-> cache,
     cacheTime |-> cacheTime, sheet |-> sheet, now |-> now,
     calls |-> <<>>, fault |-> fault]

\* Fault plans: no upstream call fails, or the at-th one fails with status.
NoFault == [at |-> 0, status |-> 200]
Faults == {NoFault} \cup [at : 1..MaxFaultAt, status : {401, 500}]

NoCred == [payload |-> NoUser, iat |-> 0, exp |-> 0, sig |-> ""]

\* A response: status, JSON body, and the credential issued (NoCred if none).
Reply(w, status, body) == [w |-> w, status |-> status, body |-> body, cred |-> NoCred]

\* ------------------------------------------------ POST /api/auth/verify

\* Faulty variant of the payload: a role the client posted is honoured.
VerifyPayload_ClientRole(email, role, body) ==
    [userId |-> email, name |-> email, email |-> email, picture |-> Empty,
     role |-> IF body.role # "" THEN body.role ELSE role]

\* Faulty variant of the payload: the Google token travels in the claims.
VerifyPayload_PlainToken(email, role, body) ==
    [userId |-> email, name |-> email, email |-> email, picture |-> Empty,
     role |-> role, googleToken |-> body.googleAccessToken.str]

\* The JWT payload of step 6.
VerifyPayload(email, role, body) ==
    [userId |-> email, name |-> email, email |-> email, picture |-> Empty,
     role |-> role]

\* Step 6 of verify: the signed token and the response.
VerifyIssue(w, payload, token) ==
    [w |-> w, status |-> 200,
     body |-> [token |-> token, user |-> payload, tokenExpiresIn |-> "1h"],
     cred |-> token]

\* Steps 5 and 6 of verify: found is the entry the identity resolved to, lw
\* the world the lookup left.
VerifyFound(lw, email, found, body) ==
    IF ~found.found
    THEN Reply([lw EXCEPT !.store = TokenStoreDelete(lw.store, email)],
               403, [error |-> "access denied"])
    ELSE VerifyIssue(IF found.role = "admin" THEN SetAdminEmail(lw, email) ELSE lw,
                     VerifyPayload(email, found.role, body),
                     JwtSign(VerifyPayload(email, found.role, body), JWT_SECRET, lw.now))

\* Step 4 of verify: l is the outcome of lookupUser; when it threw, the
\* bootstrap list decides.
VerifyLooked(l, email, body) ==
    VerifyFound(l.w, email,
                IF l.threw
                THEN IF email \in BOOTSTRAP_ADMINS
                     THEN [found |-> TRUE, email |-> email, role |-> "admin"]
                     ELSE NotFound(email)
                ELSE l.val,
                body)

\* router.post('/verify'): body is the request body, ans the identity
\* endpoint's answer.
Verify(w, body, ans) ==
    LET tok == body.googleAccessToken
    IN IF Falsy(tok) \/ tok.type # "string"
       THEN Reply(w, 400, [error |-> "googleAccessToken is required"])
       ELSE IF ans = "throw"
       THEN Reply(w, 500, [error |-> "Authentication failed. Please try again."])
       ELSE IF ans # "ok"
       THEN Reply(w, 401, [error |-> "Invalid or expired Google token"])
       ELSE LET email == NormEmail(ProfileEmail(tok.str))
            IN IF email = Empty
               THEN Reply(w, 401, [error |-> "Could not retrieve email from Google"])
               ELSE LET w1 == [w EXCEPT !.store = TokenStoreSet(w.store, email, tok.str, w.now)]
                    IN VerifyLooked(LookupUser(IF email \in BOOTSTRAP_ADMINS
                                               THEN SetAdminEmail(w1, email) ELSE w1,
                                               email),
                                    email, body)

\* ---------------------------------- GET /api/auth/me, POST /logout

\* router.get('/me')
Me(w, user) ==
    Reply(w, 200, [user |-> user,
                   googleExpiringSoon |-> IsExpiringSoon(w.store, user.userId, w.now)])

\* Faulty variant of logout: the active-admin pointer is cleared with the
\* caller's token.
Logout_ClearPointer(w, user) ==
    Reply([w EXCEPT !.store = TokenStoreDelete(w.store, user.userId),
                    !.adminEmail = Empty], 200,
          [success |-> TRUE])

\* Faulty variant of logout: the stored token is kept.
Logout_KeepToken(w, user) == Reply(w, 200, [success |-> TRUE])

\* router.post('/logout')
Logout(w, user) ==
    Reply([w EXCEPT !.store = TokenStoreDelete(w.store, user.userId)], 200,
          [success |-> TRUE])

\* ---------------------------------------- POST /api/auth/refresh-google

\* Faulty variant of refresh-google: the identity of the new token is not
\* compared with the subject of the credential.
RefreshGoogle_NoIdentityCheck(w, user, body, ans) ==
    LET tok == body.googleAccessToken
    IN IF Falsy(tok)
       THEN Reply(w, 400, [error |-> "googleAccessToken is required"])
       ELSE IF ans = "throw"
       THEN Reply(w, 500, [error |-> "Failed to refresh token"])
       ELSE IF ans # "ok"
       THEN Reply(w, 401, [error |-> "Invalid Google token"])
       ELSE LET email == NormEmail(ProfileEmail(tok.str))
                w1 == [w EXCEPT !.store = TokenStoreSet(w.store, user.userId, tok.str, w.now)]
                w2 == IF user.role = "admin" THEN SetAdminEmail(w1, email) ELSE w1
            IN Reply(w2, 200, [success |-> TRUE])

\* Faulty variant of refresh-google: the pointer is moved whatever the role
\* claim of the credential.
RefreshGoogle_AnyRole(w, user, body, ans) ==
    LET tok == body.googleAccessToken
    IN IF Falsy(tok)
       THEN Reply(w, 400, [error |-> "googleAccessToken is required"])
       ELSE IF ans = "throw"
       THEN Reply(w, 500, [error |-> "Failed to refresh token"])
       ELSE IF ans # "ok"
       THEN Reply(w, 401, [error |-> "Invalid Google token"])
       ELSE LET email == NormEmail(ProfileEmail(tok.str))
            IN IF email # user.userId
               THEN Reply(w, 403, [error |-> "Token belongs to a different account"])
               ELSE Reply(SetAdminEmail([w EXCEPT !.store = TokenStoreSet(w.store, email,
                                                                          tok.str, w.now)],
                                        email),
                          200, [success |-> TRUE])

\* Faulty variant of refresh-google: the token is stored for the subject of
\* the credential before the identity of its owner is compared.
RefreshGoogle_StoreFirst(w, user, body, ans) ==
    LET tok == body.googleAccessToken
    IN IF Falsy(tok)
       THEN Reply(w, 400, [error |-> "googleAccessToken is required"])
       ELSE IF ans = "throw"
       THEN Reply(w, 500, [error |-> "Failed to refresh token"])
       ELSE IF ans # "ok"
       THEN Reply(w, 401, [error |-> "Invalid Google token"])
       ELSE LET email == NormEmail(ProfileEmail(tok.str))
                w1 == [w EXCEPT !.store = TokenStoreSet(w.store, user.userId, tok.str, w.now)]
                w2 == IF user.role = "admin" THEN SetAdminEmail(w1, email) ELSE w1
            IN IF email # user.userId
               THEN Reply(w1, 403, [error |-> "Token belongs to a different account"])
               ELSE Reply(w2, 200, [success |-> TRUE])

\* router.post('/refresh-google')
RefreshGoogle(w, user, body, ans) ==
    LET tok == body.googleAccessToken
    IN IF Falsy(tok)
       THEN Reply(w, 400, [error |-> "googleAccessToken is required"])
       ELSE IF ans = "throw"
       THEN Reply(w, 500, [error |-> "Failed to refresh token"])
       ELSE IF ans # "ok"
       THEN Reply(w, 401, [error |-> "Invalid Google token"])
       ELSE LET email == NormEmail(ProfileEmail(tok.str))
            IN IF email # user.userId
               THEN Reply(w, 403, [error |-> "Token belongs to a different account"])
               ELSE LET w1 == [w EXCEPT !.store = TokenStoreSet(w.store, email, tok.str, w.now)]
                        w2 == IF user.role = "admin" THEN SetAdminEmail(w1, email) ELSE w1
                    IN Reply(w2, 200, [success |-> TRUE])

\* ------------------------------------------- userStore: roster calls

\* [...cache.values()]: one entry per email, in the order of first
\* occurrence, holding the last row of that email.
RECURSIVE LastRow(_, _)
LastRow(rows, e) ==
    IF rows[Len(rows)].email = e THEN rows[Len(rows)]
    ELSE LastRow(SubSeq(rows, 1, Len(rows) - 1), e)

RECURSIVE CacheValues(_, _)
CacheValues(rows, i) ==
    IF i > Len(rows) THEN <<>>
    ELSE IF \E j \in 1..(i - 1) : rows[j].email = rows[i].email
         THEN CacheValues(rows, i + 1)
         ELSE <<LastRow(rows, rows[i].email)>> \o CacheValues(rows, i + 1)

\* The bootstrap admins in the order of ADMIN_EMAILS.
RECURSIVE EnvOnly(_, _)
EnvOnly(i, sheetEmails) ==
    IF i > Len(ADMIN_EMAILS) THEN <<>>
    ELSE LET e == toLowerCase(trim(ADMIN_EMAILS[i]))
         IN IF e = Empty \/ e \in sheetEmails THEN EnvOnly(i + 1, sheetEmails)
            ELSE <<[rowIndex |-> 0, email |-> e, role |-> "admin"]>>
                 \o EnvOnly(i + 1, sheetEmails)

\* Faulty variant of getAllUsers: the rows of the roster only, the
\* bootstrap admins that are not on it left out.
GetAllUsersFresh_SheetOnly(r) ==
    IF r.threw THEN r
    ELSE Ret(r.w, IF r.w.cache.isNull THEN <<>> ELSE CacheValues(r.w.cache.rows, 1))

\* getAllUsers once the cache is fresh.
GetAllUsersFresh(r) ==
    IF r.threw THEN r
    ELSE LET sheetUsers == IF r.w.cache.isNull THEN <<>>
                           ELSE CacheValues(r.w.cache.rows, 1)
             sheetEmails == {sheetUsers[i].email : i \in 1..Len(sheetUsers)}
         IN Ret(r.w, EnvOnly(1, sheetEmails) \o sheetUsers)

\* getAllUsers()
GetAllUsers(w) == GetAllUsersFresh(Fresh(w))

\* Faulty variant of the invalidation: the cache is left as it is.
Invalidated_KeepCache(r) == IF r.threw THEN r ELSE Ret(r.w, TRUE)

\* cache = null after a write r that did not throw.
Invalidated(r) == IF r.threw THEN r ELSE Ret([r.w EXCEPT !.cache = NullCache], TRUE)

\* addUser after ensureTab.
AddUserTab(t, e, role) ==
    IF t.threw THEN t
    ELSE Invalidated(SheetFetch(t.w, [api |-> "append", tab |-> "users",
                                      row |-> [email |-> e, role |-> role]]))

\* addUser(email, role, addedBy)
AddUser(w, email, role) == AddUserTab(EnsureTab(w), NormEmail(email), role)

\* removeUser(rowIndex, tabSheetId)
RemoveUser(w, rowIndex, tabSheetId) ==
    Invalidated(SheetFetch(w, [api |-> "deleteRow", tab |-> TabOf(tabSheetId),
                               rowIndex |-> rowIndex]))

\* updateUserRole(rowIndex, role)
UpdateUserRole(w, rowIndex, role) ==
    Invalidated(SheetFetch(w, [api |-> "putRole", tab |-> "users",
                               rowIndex |-> rowIndex, role |-> role]))

\* The tab's sheetId in the metadata, or -1 for null.
SheetIdOf(meta) ==
    IF meta.threw THEN meta
    ELSE Ret(meta.w, IF meta.val THEN UsersSheetId ELSE -1)

\* getUsersTabSheetId()
GetUsersTabSheetId(w) == SheetIdOf(SheetFetch(w, Call("meta")))

\* Promise.all of a, the users, and b, the sheetId.
UsersAndSheetIdBoth(a, b) ==
    IF b.threw THEN b ELSE Ret(b.w, [users |-> a.val, sheetId |-> b.val])

\* Promise.all started in world w, a being the outcome of getAllUsers: a
\* failure of the first leaves the second's call made.  That call was
\* started beside the first fetch of getAllUsers, before any answer came:
\* its record says so.
UsersAndSheetIdFirst(w, a) ==
    IF a.threw
    THEN IF Len(a.w.calls) > Len(w.calls)
         THEN Throw([a.w EXCEPT !.calls = Append(@,
                       [api |-> "meta", tab |-> "users", status |-> 200, row |-> 0,
                        token |-> a.w.calls[Len(w.calls) + 1].token,
                        beside |-> Len(w.calls) + 1])],
                    a.err)
         ELSE a
    ELSE UsersAndSheetIdBoth(a, GetUsersTabSheetId(a.w))

\* Promise.all([getAllUsers(), getUsersTabSheetId()])
UsersAndSheetId(w) == UsersAndSheetIdFirst(w, GetAllUsers(w))

\* const myToken = tokenStore.get(req.user.userId)
\* if (myToken) setAdminEmail(req.user.userId)
RegisterAdmin(w, user) ==
    LET g == TokenStoreGet(w.store, user.userId, w.now)
        w1 == [w EXCEPT !.store = g.store]
    IN IF g.token # "" THEN SetAdminEmail(w1, user.userId) ELSE w1

\* BOOTSTRAP_ADMINS.map(e => ({ email: e, role: 'admin', addedBy: 'env' }))
BootstrapUsers == EnvOnly(1, {})

\* parseInt of the rowIndex and sheetId parameters: -1 stands for NaN.
NaN == -1

\* ------------------------------------------------ /api/auth/users routes

\* The list a mutating users route answers with.
UsersReply(r) ==
    IF r.threw THEN Reply(r.w, 500, [error |-> r.err])
    ELSE Reply(r.w, 200, [success |-> TRUE, users |-> r.val.users,
                          sheetId |-> r.val.sheetId, sheetReady |-> TRUE])

\* After the step x of a mutating users route: the catch block, or the list.
UsersAfter(x) ==
    IF x.threw THEN Reply(x.w, 500, [error |-> x.err])
    ELSE UsersReply(UsersAndSheetId(x.w))

\* After the write u of PUT and DELETE: await userStore.refreshCache()
UsersWritten(u) ==
    IF u.threw THEN Reply(u.w, 500, [error |-> u.err])
    ELSE UsersAfter(RefreshCache(u.w))

\* GET /users after the Promise.all.
GetUsersRead(r) ==
    IF r.threw
    THEN Reply(r.w, 200, [users |-> BootstrapUsers, sheetId |-> -1,
                          sheetReady |-> FALSE, error |-> r.err])
    ELSE Reply(r.w, 200, [users |-> r.val.users, sheetId |-> r.val.sheetId,
                          sheetReady |-> TRUE])

\* GET /users after userStore.isReady().
GetUsersReady(ready) ==
    IF ~ready.val
    THEN Reply(ready.w, 200, [users |-> BootstrapUsers, sheetId |-> -1,
                              sheetReady |-> FALSE])
    ELSE GetUsersRead(UsersAndSheetId(ready.w))

\* Faulty variant of GET /users: the gate asks the roster for the caller's
\* present role instead of reading the role claim.
GetUsers_RosterRole(w, user) ==
    IF \/ LookupUser([w EXCEPT !.fault = NoFault], user.userId).threw
       \/ ~LookupUser([w EXCEPT !.fault = NoFault], user.userId).val.found
       \/ LookupUser([w EXCEPT !.fault = NoFault], user.userId).val.role # "admin"
    THEN Reply(w, 403, [error |-> "Admin only"])
    ELSE GetUsersReady(IsReady(RegisterAdmin(w, user)))

\* router.get('/users')
GetUsers(w, user) ==
    IF user.role # "admin" THEN Reply(w, 403, [error |-> "Admin only"])
    ELSE GetUsersReady(IsReady(RegisterAdmin(w, user)))

\* POST /users after getAllUsers.
PostUsersExisting(existing, e, role) ==
    IF existing.threw THEN Reply(existing.w, 500, [error |-> existing.err])
    ELSE IF \E i \in 1..Len(existing.val) : existing.val[i].email = e
    THEN Reply(existing.w, 409, [error |-> "already added"])
    ELSE UsersAfter(AddUser(existing.w, e, role))

\* router.post('/users'): body = [email, role]
PostUsers(w, user, body) ==
    IF user.role # "admin" THEN Reply(w, 403, [error |-> "Admin only"])
    ELSE LET w1 == RegisterAdmin(w, user)
             e == NormEmail(body.email)
         IN IF body.email = Empty \/ body.role = ""
            THEN Reply(w1, 400, [error |-> "email and role are required"])
            ELSE IF body.role \notin {"admin", "user"}
            THEN Reply(w1, 400, [error |-> "role must be admin or user"])
            ELSE IF e \in BOOTSTRAP_ADMINS
            THEN Reply(w1, 400, [error |-> "already a server admin"])
            ELSE PostUsersExisting(GetAllUsers(w1), e, body.role)

\* Faulty variant of PUT /users/:rowIndex: the caller is registered as the
\* active admin before its role is checked.
PutUsers_RegisterFirst(w, user, rowNum, role) ==
    IF user.role # "admin" THEN Reply(RegisterAdmin(w, user), 403, [error |-> "Admin only"])
    ELSE IF role \notin {"admin", "user"}
    THEN Reply(w, 400, [error |-> "Valid role required"])
    ELSE IF rowNum = NaN \/ rowNum < 2
    THEN Reply(w, 400, [error |-> "Invalid rowIndex"])
    ELSE UsersWritten(UpdateUserRole(RegisterAdmin(w, user), rowNum, role))

\* router.put('/users/:rowIndex')
PutUsers(w, user, rowNum, role) ==
    IF user.role # "admin" THEN Reply(w, 403, [error |-> "Admin only"])
    ELSE IF role \notin {"admin", "user"}
    THEN Reply(w, 400, [error |-> "Valid role required"])
    ELSE IF rowNum = NaN \/ rowNum < 2
    THEN Reply(w, 400, [error |-> "Invalid rowIndex"])
    ELSE UsersWritten(UpdateUserRole(RegisterAdmin(w, user), rowNum, role))

\* router.delete('/users/:rowIndex')
DeleteUsers(w, user, rowNum, sheetId) ==
    IF user.role # "admin" THEN Reply(w, 403, [error |-> "Admin only"])
    ELSE IF rowNum = NaN \/ rowNum < 2
    THEN Reply(w, 400, [error |-> "Invalid rowIndex"])
    ELSE IF sheetId = NaN
    THEN Reply(w, 400, [error |-> "sheetId query param required"])
    ELSE UsersWritten(RemoveUser(RegisterAdmin(w, user), rowNum, sheetId))

\* ------------------------------------------------- /api/sheets routes

\* Faulty variant of getGoogleToken: the token of the active admin is used.
GetGoogleToken_AdminToken(w, user) == AdminToken(w)

\* getGoogleToken(req, res): the caller's token, or "" after answering 401
GetGoogleToken(w, user) == TokenStoreGet(w.store, user.userId, w.now)

GoogleExpired(w) ==
    [w |-> w, status |-> 401,
     body |-> [error |-> "Google session expired. Please reconnect Google Sheets.",
               code |-> "GOOGLE_TOKEN_EXPIRED"],
     cred |-> NoCred]

\* Faulty variant of handleGoogleError: every upstream error is answered 500.
HandleGoogleError_Always500(u) == Reply(u.w, 500, [error |-> "Google API error"])

\* handleGoogleError(googleRes, res)
HandleGoogleError(u) == Reply(u.w, u.status, [error |-> "Google API error"])

\* The answer u of the API passed on: the error, or 200 with body.
Proxied(u, body) ==
    IF u.status # 200 THEN HandleGoogleError(u) ELSE Reply(u.w, 200, body)

\* GET /data after the metadata was fetched.
SheetsDataMeta(m, token) ==
    IF m.status # 200 THEN HandleGoogleError(m)
    ELSE Proxied(Upstream(m.w, [api |-> "readRows", tab |-> "data"], token),
                 [values |-> <<>>, sheetName |-> "data", sheetId |-> DataSheetId])

\* router.get('/data')
SheetsData(w, user) ==
    LET g == GetGoogleToken(w, user)
        w1 == [w EXCEPT !.store = g.store]
    IN IF g.token = "" THEN GoogleExpired(w1)
       ELSE SheetsDataMeta(Upstream(w1, [api |-> "meta", tab |-> "data"], g.token),
                           g.token)

\* router.post('/append'): body = [hasValues, row, sheetName]
SheetsAppend(w, user, body) ==
    LET g == GetGoogleToken(w, user)
        w1 == [w EXCEPT !.store = g.store]
    IN IF g.token = "" THEN GoogleExpired(w1)
       ELSE IF ~body.hasValues \/ body.sheetName = ""
       THEN Reply(w1, 400, [error |-> "values (array) and sheetName are required"])
       ELSE Proxied(Upstream(w1, [api |-> "append", tab |-> body.sheetName,
                                  row |-> body.row], g.token),
                    [updated |-> TRUE])

\* router.put('/row/:rowIndex'): body = [hasValues, row, sheetName]
SheetsRowPut(w, user, rowNum, body) ==
    LET g == GetGoogleToken(w, user)
        w1 == [w EXCEPT !.store = g.store]
    IN IF g.token = "" THEN GoogleExpired(w1)
       ELSE IF ~body.hasValues \/ body.sheetName = ""
       THEN Reply(w1, 400, [error |-> "values and sheetName are required"])
       ELSE IF rowNum = NaN \/ rowNum < 2
       THEN Reply(w1, 400, [error |-> "Invalid rowIndex"])
       ELSE Proxied(Upstream(w1, [api |-> "putRow", tab |-> body.sheetName,
                                  rowIndex |-> rowNum, row |-> body.row], g.token),
                    [updated |-> TRUE])

\* Faulty variant of DELETE /api/sheets/row/:rowIndex: row 1 is accepted.
SheetsRowDelete_FromRow1(w, user, rowNum, sheetIdNum) ==
    LET g == GetGoogleToken(w, user)
        w1 == [w EXCEPT !.store = g.store]
    IN IF g.token = "" THEN GoogleExpired(w1)
       ELSE IF rowNum = NaN \/ rowNum < 1
       THEN Reply(w1, 400, [error |-> "Invalid rowIndex"])
       ELSE Proxied(Upstream(w1, [api |-> "deleteRow", tab |-> TabOf(sheetIdNum),
                                  rowIndex |-> rowNum], g.token),
                    [updated |-> TRUE])

\* router.delete('/row/:rowIndex')
SheetsRowDelete(w, user, rowNum, sheetIdNum) ==
    LET g == GetGoogleToken(w, user)
        w1 == [w EXCEPT !.store = g.store]
    IN IF g.token = "" THEN GoogleExpired(w1)
       ELSE IF rowNum = NaN \/ rowNum < 2
       THEN Reply(w1, 400, [error |-> "Invalid rowIndex"])
       ELSE IF sheetIdNum = NaN
       THEN Reply(w1, 400, [error |-> "sheetId query param is required"])
       ELSE Proxied(Upstream(w1, [api |-> "deleteRow", tab |-> TabOf(sheetIdNum),
                                  rowIndex |-> rowNum], g.token),
                    [updated |-> TRUE])

\* The sheetId of a tab of the spreadsheet.
TabId(tabName) == IF tabName = "users" THEN UsersSheetId ELSE DataSheetId

\* POST /ensure-tab after the tab was added: the header row is written.
SheetsEnsureTabAdded(a, token, body) ==
    IF a.status # 200 THEN HandleGoogleError(a)
    ELSE Proxied(Upstream(a.w, [api |-> "putHeaders", tab |-> body.tabName], token),
                 [created |-> TRUE, sheetId |-> TabId(body.tabName),
                  tabName |-> body.tabName])

\* POST /ensure-tab after the metadata was fetched.
SheetsEnsureTabMeta(m, token, body) ==
    IF m.status # 200 THEN HandleGoogleError(m)
    ELSE IF body.tabName # "users" \/ m.data
    THEN Reply(m.w, 200, [created |-> FALSE, sheetId |-> TabId(body.tabName),
                          tabName |-> body.tabName])
    ELSE SheetsEnsureTabAdded(Upstream(m.w, [api |-> "addSheet", tab |-> body.tabName],
                                       token),
                              token, body)

\* router.post('/ensure-tab'): body = [tabName, hasHeaders]. The spreadsheet
\* has the data tab; the users tab is the one that may be missing.
SheetsEnsureTab(w, user, body) ==
    LET g == GetGoogleToken(w, user)
        w1 == [w EXCEPT !.store = g.store]
    IN IF g.token = "" THEN GoogleExpired(w1)
       ELSE IF body.tabName = "" \/ ~body.hasHeaders
       THEN Reply(w1, 400, [error |-> "tabName and headers[] are required"])
       ELSE SheetsEnsureTabMeta(Upstream(w1, [api |-> "meta", tab |-> body.tabName],
                                         g.token),
                                g.token, body)

\* GET /tab-data after the values were read.
SheetsTabDataRead(v, tabName) ==
    IF v.status # 200 THEN HandleGoogleError(v)
    ELSE Reply(v.w, 200, [values |-> IF tabName = "users" THEN v.data ELSE <<>>,
                          tabName |-> tabName])

\* router.get('/tab-data'): tabName is the query parameter
SheetsTabData(w, user, tabName) ==
    LET g == GetGoogleToken(w, user)
        w1 == [w EXCEPT !.store = g.store]
    IN IF g.token = "" THEN GoogleExpired(w1)
       ELSE IF tabName = ""
       THEN Reply(w1, 400, [error |-> "tabName query param is required"])
       ELSE SheetsTabDataRead(Upstream(w1, [api |-> "readRows", tab |-> tabName],
                                       g.token),
                              tabName)

\* ------------------------------------------------------------ actions

NoInput == [tok |-> Undefined, role |-> "", ans |-> "none"]

\* What resp holds after a step that is no request.
Event(op) ==
    [op |-> op, hdr |-> NoHeader, status |-> 0, authed |-> FALSE, user |-> NoUser,
     body |-> [error |-> ""], cred |-> NoCred, in |-> NoInput, calls |-> <<>>]

\* No response is in flight: the server takes one request at a time.
Idle == resp.status = 0

\* The state after a handler, and the record of the request.
Respond(op, hdr, auth, out, in) ==
    /\ store' = out.w.store
    /\ adminEmail' = out.w.adminEmail
    /\ cache' = out.w.cache
    /\ cacheTime' = out.w.cacheTime
    /\ sheet' = out.w.sheet
    /\ creds' = IF out.cred = NoCred THEN creds
                ELSE Put(creds, out.cred.payload.userId, out.cred)
    /\ resp' = [op |-> op, hdr |-> hdr, status |-> out.status, authed |-> auth.next,
                user |-> auth.user, body |-> out.body, cred |-> out.cred,
                in |-> in, calls |-> out.w.calls]
    /\ UNCHANGED <<now, ticks, tasks, svcVars>>

\* requireAuth ended the request: nothing ran.
Rejected(op, hdr, auth, in) ==
    /\ resp' = [op |-> op, hdr |-> hdr, status |-> auth.status, authed |-> FALSE,
                user |-> auth.user,
                body |-> [error |-> "unauthorized", code |-> auth.code],
                cred |-> NoCred, in |-> in, calls |-> <<>>]
    /\ UNCHANGED <<store, adminEmail, cache, cacheTime, sheet, creds, now, ticks, tasks, svcVars>>

NoAuth == [next |-> FALSE, status |-> 200, code |-> "", user |-> NoUser]

\* The bodies a client can post to /verify: googleAccessToken, and a role
\* field the API does not define.
VerifyBodies ==
    {[googleAccessToken |-> tok, role |-> ""] : tok \in TokenInputs}
    \cup {[googleAccessToken |-> Str(t), role |-> "admin"] : t \in {"gB1", "gU1"}}

\* The identity endpoint answers only when it is called ("none" otherwise),
\* and the spreadsheet API is reached only after it accepted the token.
VerifyAnswers(tok) ==
    IF Falsy(tok) \/ tok.type # "string" THEN {"none"} ELSE IdAnswers(tok.str)
RefreshAnswers(tok) == IF Falsy(tok) THEN {"none"} ELSE IdAnswers(tok.str)

\* The fault plans that can tell on a request that makes n upstream calls
\* when none fails: a plan for a later call is the plan NoFault.
FaultsWithin(n) == {f \in Faults : f.at <= n}

DoVerify ==
    /\ Idle
    /\ \E body \in VerifyBodies :
         \E ans \in VerifyAnswers(body.googleAccessToken) :
           \E fault \in FaultsWithin(Len(Verify(World(NoFault), body, ans).w.calls)) :
             Respond("verify", NoHeader, NoAuth, Verify(World(fault), body, ans),
                     [tok |-> body.googleAccessToken, role |-> body.role, ans |-> ans])

DoMe ==
    /\ Idle
    /\ \E hdr \in Headers :
         LET auth == RequireAuth(hdr, now)
         IN IF auth.next
            THEN Respond("me", hdr, auth, Me(World(NoFault), auth.user), NoInput)
            ELSE Rejected("me", hdr, auth, NoInput)

DoLogout ==
    /\ Idle
    /\ \E hdr \in Headers :
         LET auth == RequireAuth(hdr, now)
         IN IF auth.next
            THEN Respond("logout", hdr, auth, Logout(World(NoFault), auth.user), NoInput)
            ELSE Rejected("logout", hdr, auth, NoInput)

DoRefreshGoogle ==
    /\ Idle
    /\ \E hdr \in Headers :
         LET auth == RequireAuth(hdr, now)
         IN IF auth.next
            THEN \E tok \in TokenInputs :
                   \E ans \in RefreshAnswers(tok) :
                     Respond("refresh-google", hdr, auth,
                             RefreshGoogle(World(NoFault), auth.user,
                                           [googleAccessToken |-> tok], ans),
                             [tok |-> tok, role |-> "", ans |-> ans])
            ELSE Rejected("refresh-google", hdr, auth, NoInput)

DoSheetsData ==
    /\ Idle
    /\ \E hdr \in Headers :
         LET auth == RequireAuth(hdr, now)
         IN IF auth.next
            THEN \E fault \in FaultsWithin(
                                Len(SheetsData(World(NoFault), auth.user).w.calls)) :
                   Respond("sheets/data", hdr, auth, SheetsData(World(fault), auth.user),
                           NoInput)
            ELSE Rejected("sheets/data", hdr, auth, NoInput)

\* The rowIndex and sheetId parameters a client sends, and whether the
\* upstream call is to fail.
RowDeleteParams ==
    {<<NaN, UsersSheetId, NoFault>>, <<1, UsersSheetId, NoFault>>,
     <<2, NaN, NoFault>>, <<2, DataSheetId, NoFault>>,
     <<2, UsersSheetId, NoFault>>, <<2, UsersSheetId, [at |-> 1, status |-> 500]>>}

DoSheetsRowDelete ==
    /\ Idle
    /\ \E hdr \in Headers :
         LET auth == RequireAuth(hdr, now)
         IN IF auth.next
            THEN \E p \in RowDeleteParams :
                   Respond("sheets/row DELETE", hdr, auth,
                           SheetsRowDelete(World(p[3]), auth.user, p[1], p[2]),
                           NoInput)
            ELSE Rejected("sheets/row DELETE", hdr, auth, NoInput)

\* The bodies an admin posts to /users, and whether an upstream call fails.
PostUsersInputs ==
    {<<[email |-> Empty, role |-> "user"], NoFault>>,
     <<[email |-> U, role |-> "root"], NoFault>>,
     <<[email |-> <<"B", " ">>, role |-> "user"], NoFault>>,
     <<[email |-> <<" ", "U">>, role |-> "user"], NoFault>>,
     <<[email |-> U, role |-> "admin"], NoFault>>,
     <<[email |-> U, role |-> "user"], [at |-> 1, status |-> 401]>>,
     <<[email |-> U, role |-> "user"], [at |-> 2, status |-> 500]>>}

DoGetUsers ==
    /\ Idle
    /\ \E hdr \in Headers :
         LET auth == RequireAuth(hdr, now)
         IN IF auth.next
            THEN \E fault \in FaultsWithin(
                                Len(GetUsers(World(NoFault), auth.user).w.calls)) :
                   Respond("users GET", hdr, auth, GetUsers(World(fault), auth.user),
                           NoInput)
            ELSE Rejected("users GET", hdr, auth, NoInput)

DoPostUsers ==
    /\ Idle
    /\ Len(sheet.values) <= MaxRows
    /\ \E hdr \in Headers :
         LET auth == RequireAuth(hdr, now)
         IN IF auth.next
            THEN \E p \in PostUsersInputs :
                   Respond("users POST", hdr, auth,
                           PostUsers(World(p[2]), auth.user, p[1]), NoInput)
            ELSE Rejected("users POST", hdr, auth, NoInput)

\* The rowIndex parameter and the role of the body of PUT /users/:rowIndex.
PutUsersInputs ==
    {<<NaN, "admin", NoFault>>, <<2, "", NoFault>>, <<2, "admin", NoFault>>,
     <<2, "user", NoFault>>, <<2, "admin", [at |-> 1, status |-> 500]>>}

DoPutUsers ==
    /\ Idle
    /\ \E hdr \in Headers :
         LET auth == RequireAuth(hdr, now)
         IN IF auth.next
            THEN \E p \in PutUsersInputs :
                   Respond("users PUT", hdr, auth,
                           PutUsers(World(p[3]), auth.user, p[1], p[2]), NoInput)
            ELSE Rejected("users PUT", hdr, auth, NoInput)

DoDeleteUsers ==
    /\ Idle
    /\ \E hdr \in Headers :
         LET auth == RequireAuth(hdr, now)
         IN IF auth.next
            THEN \E p \in RowDeleteParams :
                   Respond("users DELETE", hdr, auth,
                           DeleteUsers(World(p[3]), auth.user, p[1], p[2]), NoInput)
            ELSE Rejected("users DELETE", hdr, auth, NoInput)

\* The bodies a client posts to /api/sheets/append.
AppendBodies ==
    {[hasValues |-> FALSE, row |-> BlankRow, sheetName |-> "data"],
     [hasValues |-> TRUE, row |-> BlankRow, sheetName |-> "data"],
     [hasValues |-> TRUE, row |-> [email |-> U, role |-> "admin"], sheetName |-> "users"]}

DoSheetsAppend ==
    /\ Idle
    /\ Len(sheet.values) <= MaxRows
    /\ \E hdr \in Headers :
         LET auth == RequireAuth(hdr, now)
         IN IF auth.next
            THEN \E body \in AppendBodies : \E fault \in {NoFault, [at |-> 1, status |-> 401]} :
                   Respond("sheets/append", hdr, auth,
                           SheetsAppend(World(fault), auth.user, body), NoInput)
            ELSE Rejected("sheets/append", hdr, auth, NoInput)

\* The rowIndex parameter and the body of PUT /api/sheets/row/:rowIndex.
RowPutInputs ==
    {<<2, [hasValues |-> FALSE, row |-> BlankRow, sheetName |-> "data"], NoFault>>,
     <<NaN, [hasValues |-> TRUE, row |-> BlankRow, sheetName |-> "data"], NoFault>>,
     <<2, [hasValues |-> TRUE, row |-> BlankRow, sheetName |-> "data"], NoFault>>,
     <<2, [hasValues |-> TRUE, row |-> [email |-> U, role |-> "admin"],
           sheetName |-> "users"], NoFault>>,
     <<2, [hasValues |-> TRUE, row |-> [email |-> U, role |-> "admin"],
           sheetName |-> "users"], [at |-> 1, status |-> 401]>>}

DoSheetsRowPut ==
    /\ Idle
    /\ \E hdr \in Headers :
         LET auth == RequireAuth(hdr, now)
         IN IF auth.next
            THEN \E p \in RowPutInputs :
                   Respond("sheets/row PUT", hdr, auth,
                           SheetsRowPut(World(p[3]), auth.user, p[1], p[2]), NoInput)
            ELSE Rejected("sheets/row PUT", hdr, auth, NoInput)

\* The bodies a client posts to /api/sheets/ensure-tab.
EnsureTabInputs ==
    {<<[tabName |-> "", hasHeaders |-> TRUE], NoFault>>,
     <<[tabName |-> "data", hasHeaders |-> TRUE], NoFault>>,
     <<[tabName |-> "users", hasHeaders |-> TRUE], NoFault>>,
     <<[tabName |-> "users", hasHeaders |-> TRUE], [at |-> 2, status |-> 500]>>}

DoSheetsEnsureTab ==
    /\ Idle
    /\ \E hdr \in Headers :
         LET auth == RequireAuth(hdr, now)
         IN IF auth.next
            THEN \E p \in EnsureTabInputs :
                   Respond("sheets/ensure-tab", hdr, auth,
                           SheetsEnsureTab(World(p[2]), auth.user, p[1]), NoInput)
            ELSE Rejected("sheets/ensure-tab", hdr, auth, NoInput)

DoSheetsTabData ==
    /\ Idle
    /\ \E hdr \in Headers :
         LET auth == RequireAuth(hdr, now)
         IN IF auth.next
            THEN \E tabName \in {"", "data", "users"} :
                   Respond("sheets/tab-data", hdr, auth,
                           SheetsTabData(World(NoFault), auth.user, tabName), NoInput)
            ELSE Rejected("sheets/tab-data", hdr, auth, NoInput)

\* The tick of the clock between two requests.
Tick ==
    /\ Idle
    /\ ticks < MaxTicks
    /\ \E d \in Steps : now' = now + d
    /\ ticks' = ticks + 1
    /\ resp' = Event("tick")
    /\ UNCHANGED <<store, adminEmail, cache, cacheTime, sheet, creds, tasks, svcVars>>

\* A cold start of the serverless function: every module-level variable is
\* initialised again; the clients keep their credentials.
ColdStart ==
    /\ Idle
    /\ store' = NoStore
    /\ adminEmail' = Empty
    /\ cache' = NullCache
    /\ cacheTime' = 0
    /\ resp' = Event("coldstart")
    /\ cachedToken' = NoToken
    /\ tokenExpiresAt' = 0
    /\ UNCHANGED <<sheet, creds, now, ticks, tasks, serviceKey, log>>

\* res.json(...): the response is sent and the exchange ends.
Deliver ==
    /\ ~Idle
    /\ resp' = Event("idle")
    /\ UNCHANGED <<store, adminEmail, cache, cacheTime, sheet, creds, now, ticks, tasks, svcVars>>

\* The spreadsheets the server can be deployed against: no users tab yet, or
\* a users tab listing u as a user.
InitSheets ==
    {[tab |-> FALSE, values |-> <<>>],
     [tab |-> TRUE, values |-> <<USERS_HEADERS, [email |-> <<"U", " ">>, role |-> "user"]>>]}

Init ==
    /\ store = NoStore
    /\ adminEmail = Empty
    /\ cache = NullCache
    /\ cacheTime = 0
    /\ sheet \in InitSheets
    /\ creds = NoStore
    /\ now = 0
    /\ ticks = 0
    /\ resp = Event("init")
    /\ tasks = <<>>
    /\ NoService

Next ==
    \/ DoVerify
    \/ DoMe
    \/ DoLogout
    \/ DoRefreshGoogle
    \/ DoSheetsData
    \/ DoSheetsRowDelete
    \/ Deliver
    \/ Tick
    \/ ColdStart

Spec == Init /\ [][Next]_vars

\* Every route of the API at one instant of the clock.
NextRoutes ==
    \/ DoVerify
    \/ DoMe
    \/ DoLogout
    \/ DoRefreshGoogle
    \/ DoGetUsers
    \/ DoPostUsers
    \/ DoPutUsers
    \/ DoDeleteUsers
    \/ DoSheetsData
    \/ DoSheetsAppend
    \/ DoSheetsRowPut
    \/ DoSheetsRowDelete
    \/ DoSheetsEnsureTab
    \/ DoSheetsTabData
    \/ Deliver
    \/ ColdStart

SpecRoutes == Init /\ [][NextRoutes]_vars

\* Every route of the API, and the clock.
NextAll == NextRoutes \/ Tick

SpecAll == Init /\ [][NextAll]_vars

\* What the role cell of a row of the users tab can hold: nothing, a role
\* of the API, or any other text typed into the spreadsheet.
RoleCells == {"", "user", "admin", "owner"}

\* The users tabs the server can find: those of InitSheets, and a tab
\* listing u with any role cell.
AnyRosterSheets ==
    InitSheets
    \cup {[tab |-> TRUE,
           values |-> <<USERS_HEADERS, [email |-> <<"U", " ">>, role |-> r]>>] :
          r \in RoleCells}

InitAnyRoster ==
    /\ store = NoStore
    /\ adminEmail = Empty
    /\ cache = NullCache
    /\ cacheTime = 0
    /\ sheet \in AnyRosterSheets
    /\ creds = NoStore
    /\ now = 0
    /\ ticks = 0
    /\ resp = Event("init")
    /\ tasks = <<>>
    /\ NoService

\* The routes of Spec, deployed against any content of the users tab.
SpecAnyRoster == InitAnyRoster /\ [][Next]_vars

\* ------------------------------------- userStore calls at their awaits

\* Number of userStore calls that can be in flight together, and number of
\* calls each of them makes in one behaviour.
MaxTasks == 2
MaxOps == 2

\* A call not yet made: op is the function, pc the fetch it awaits ("" when
\* it has returned, "resume" when its last fetch was answered and its
\* continuation has not run), rows the rows it read, ans what it returned.
IdleTask ==
    [op |-> "idle", pc |-> "", e |-> Empty, row |-> 0, role |-> "", rows |-> <<>>,
     ans |-> <<>>, threw |-> FALSE, n |-> 0]

\* The exported functions of userStore and the arguments they are called with.
RosterOps ==
    {[op |-> "lookupUser", e |-> U, row |-> 0, role |-> ""],
     [op |-> "getAllUsers", e |-> Empty, row |-> 0, role |-> ""],
     [op |-> "refreshCache", e |-> Empty, row |-> 0, role |-> ""],
     [op |-> "addUser", e |-> <<"n">>, row |-> 0, role |-> "user"],
     [op |-> "removeUser", e |-> Empty, row |-> 2, role |-> ""],
     [op |-> "updateUserRole", e |-> Empty, row |-> 2, role |-> "admin"]}

\* The first fetch of a function, and the one that follows ensureTab.
FirstCall(op) ==
    CASE op = "removeUser" -> "deleteRow"
      [] op = "updateUserRole" -> "putRole"
      [] OTHER -> "meta"
AfterTab(op) == IF op = "addUser" THEN "append" ELSE "readRows"

\* The request a call awaits.
CallOf(t) ==
    CASE t.pc = "append" -> [api |-> "append", tab |-> "users",
                             row |-> [email |-> t.e, role |-> t.role]]
      [] t.pc = "deleteRow" -> [api |-> "deleteRow", tab |-> "users", rowIndex |-> t.row]
      [] t.pc = "putRole" -> [api |-> "putRole", tab |-> "users",
                              rowIndex |-> t.row, role |-> t.role]
      [] OTHER -> Call(t.pc)

\* The fetch that follows the answer r, or "resume" after the last one.
NextPc(t, r) ==
    CASE t.pc = "meta" -> IF r.data THEN AfterTab(t.op) ELSE "addSheet"
      [] t.pc = "addSheet" -> "putHeaders"
      [] t.pc = "putHeaders" -> AfterTab(t.op)
      [] OTHER -> "resume"

\* A function of userStore is called while fewer than limit calls are in
\* flight.  lookupUser and getAllUsers return at once from a cache that is
\* not stale; every other call runs up to its first fetch.
StartTask(limit) ==
    /\ Cardinality({i \in DOMAIN tasks : tasks[i].pc # ""}) < limit
    /\ \E i \in DOMAIN tasks : \E o \in RosterOps :
         /\ tasks[i].pc = ""
         /\ tasks[i].n < MaxOps
         /\ tasks' = [tasks EXCEPT ![i] =
              [op |-> o.op, e |-> o.e, row |-> o.row, role |-> o.role, rows |-> <<>>,
               threw |-> FALSE, n |-> tasks[i].n + 1,
               pc |-> IF o.op \in {"lookupUser", "getAllUsers"} /\ ~CacheStale(World(NoFault))
                      THEN "" ELSE FirstCall(o.op),
               ans |-> IF CacheStale(World(NoFault)) THEN <<>>
                       ELSE IF o.op = "lookupUser"
                            THEN <<LookupUser(World(NoFault), o.e).val>>
                       ELSE IF o.op = "getAllUsers" THEN GetAllUsers(World(NoFault)).val
                       ELSE <<>>]]
    /\ UNCHANGED <<store, adminEmail, cache, cacheTime, sheet, creds, now, ticks, resp, svcVars>>

\* The rows readAllRows makes of the values it was answered.
RowsRead(values) == ReadAllRowsData(Ret(World(NoFault), values)).val

\* The spreadsheet API serves the fetch a call awaits, and the call runs up
\* to its next fetch: sheetFetch throws on an answer that is not ok,
\* readAllRows keeps the rows it read.
ApiAnswer ==
    /\ \E i \in DOMAIN tasks :
         /\ tasks[i].pc \notin {"", "resume"}
         /\ sheet' = SheetsApi(sheet, CallOf(tasks[i])).sheet
         /\ tasks' = [tasks EXCEPT ![i] =
              IF SheetsApi(sheet, CallOf(tasks[i])).status # 200
              THEN [@ EXCEPT !.pc = "", !.threw = TRUE]
              ELSE [@ EXCEPT !.pc = NextPc(tasks[i], SheetsApi(sheet, CallOf(tasks[i]))),
                             !.rows = IF tasks[i].pc = "readRows"
                                      THEN RowsRead(sheet.values)
                                      ELSE @]]
    /\ UNCHANGED <<store, adminEmail, cache, cacheTime, creds, now, ticks, resp, svcVars>>

\* The cache a call leaves: null after a mutation, else the rows it read.
CacheAfter(t) ==
    IF t.op \in {"addUser", "removeUser", "updateUserRole"} THEN NullCache
    ELSE [isNull |-> FALSE, rows |-> t.rows]

\* What a call returns when its continuation has run.
Returned(t) ==
    CASE t.op = "lookupUser" -> <<CacheGet(t.rows, t.e)>>
      [] t.op = "getAllUsers" ->
            GetAllUsersFresh(Ret([World(NoFault) EXCEPT !.cache = CacheAfter(t)], <<>>)).val
      [] t.op = "refreshCache" -> t.rows
      [] OTHER -> <<>>

\* The continuation after the last fetch of a call: the mutations set
\* cache = null; refreshCache sets the cache and cacheTime, and lookupUser
\* and getAllUsers then answer from the cache.
Resume ==
    /\ \E i \in DOMAIN tasks :
         /\ tasks[i].pc = "resume"
         /\ cache' = CacheAfter(tasks[i])
         /\ cacheTime' = IF CacheAfter(tasks[i]).isNull THEN cacheTime ELSE now
         /\ tasks' = [tasks EXCEPT ![i] =
              [@ EXCEPT !.pc = "",
                        !.ans = Returned(tasks[i])]]
    /\ UNCHANGED <<store, adminEmail, sheet, creds, now, ticks, resp, svcVars>>

\* The state after a bootstrap admin logged in: its token is the admin token.
InitConcurrent ==
    /\ store = TokenStoreSet(NoStore, B, "gB1", 0)
    /\ adminEmail = B
    /\ cache = NullCache
    /\ cacheTime = 0
    /\ sheet \in InitSheets
    /\ creds = NoStore
    /\ now = 0
    /\ ticks = 0
    /\ resp = Event("init")
    /\ tasks = [i \in 1..MaxTasks |-> IdleTask]
    /\ NoService

\* The calls of userStore interleaved at their awaits.
NextConcurrent == StartTask(MaxTasks) \/ ApiAnswer \/ Resume
SpecConcurrent == InitConcurrent /\ [][NextConcurrent]_vars

\* The same calls, each run to its end before the next is made.
NextSequential == StartTask(1) \/ ApiAnswer \/ Resume
SpecSequential == InitConcurrent /\ [][NextSequential]_vars

\* ------------------------------------------------------- vocabulary

\* The identity Google associates with a token input ("" for none).
IdentityOf(tok) == NormEmail(ProfileEmail(tok.str))

\* A request of the named route whose handler ran.
Ran(op) == resp.op = op /\ (op = "verify" \/ resp.authed)

\* The rows readAllRows would return now, were the spreadsheet read.
RosterRows ==
    IF sheet.tab /\ Len(sheet.values) >= 2 THEN MapRows(sheet.values, 2) ELSE <<>>

InRoster(e) == \E i \in 1..Len(RosterRows) : RosterRows[i].email = e

\* The cached snapshot is within its TTL and lists e.
CacheServes(e) ==
    /\ ~cache.isNull
    /\ now - cacheTime <= TTL_MS
    /\ \E i \in 1..Len(cache.rows) : cache.rows[i].email = e

\* The token of the code field of an error body.
CodeOf(body) == IF "code" \in DOMAIN body THEN body.code ELSE ""

\* --------------------------------------------------------------- C1

\* C1 as stated: a refresh whose new token belongs to an identity other
\* than the credential's subject ends with 403, whatever the identity
\* endpoint answers about the token.
C1_AlwaysIdentityMismatch ==
    (/\ Ran("refresh-google")
     /\ resp.in.tok.type = "string"
     /\ IdentityOf(resp.in.tok) \in Emails \ {resp.user.userId})
    => resp.status = 403

\* C1 amended: such a refresh never succeeds and never stores the token; it
\* ends with 403 when the identity endpoint accepts the token, with 401 when
\* it rejects it, and with 500 when the call to it fails.
C1_IdentityContinuity ==
    (/\ Ran("refresh-google")
     /\ resp.in.tok.type = "string"
     /\ IdentityOf(resp.in.tok) \in Emails \ {resp.user.userId})
    => /\ resp.status = (CASE resp.in.ans = "ok" -> 403
                           [] resp.in.ans = "notok" -> 401
                           [] OTHER -> 500)
       /\ \A e \in DOMAIN store : store[e].googleToken = resp.in.tok.str
                                    => e = IdentityOf(resp.in.tok)

\* A refresh with a token Google accepts for another identity was refused.
C1_Witness ==
    /\ Ran("refresh-google")
    /\ resp.in.ans = "ok"
    /\ resp.user.userId = B
    /\ IdentityOf(resp.in.tok) = U
    /\ resp.status = 403

\* --------------------------------------------------------------- C2

\* C2: a verify that returns no credential leaves the token store, the
\* active-admin pointer and the roster cache as they were.
C2_IssuanceAllOrNothing ==
    [][(resp'.op = "verify" /\ resp'.status # 200)
         => UNCHANGED <<store, adminEmail, cache, cacheTime>>]_vars

\* --------------------------------------------------------------- C3

\* C3 as stated: a verify with a token Google accepts, for an identity in
\* neither the bootstrap list nor the roster, ends with 403.
C3_UnknownIdentityDenied ==
    (/\ Ran("verify")
     /\ resp.in.ans = "ok"
     /\ IdentityOf(resp.in.tok) \in Emails \ BOOTSTRAP_ADMINS
     /\ ~InRoster(IdentityOf(resp.in.tok)))
    => resp.status = 403

\* C3 amended: it ends with 403 unless the roster cache, within its TTL,
\* still lists the identity.
C3_UnknownUncachedIdentityDenied ==
    (/\ Ran("verify")
     /\ resp.in.ans = "ok"
     /\ IdentityOf(resp.in.tok) \in Emails \ BOOTSTRAP_ADMINS
     /\ ~InRoster(IdentityOf(resp.in.tok))
     /\ ~CacheServes(IdentityOf(resp.in.tok)))
    => resp.status = 403 /\ resp.cred = NoCred

\* An identity off the roster was denied while an admin's token was live and
\* the roster was read.
C3_Witness ==
    /\ Ran("verify")
    /\ resp.in.ans = "ok"
    /\ IdentityOf(resp.in.tok) = U
    /\ ~InRoster(U)
    /\ resp.status = 403
    /\ resp.calls # <<>>
    /\ adminEmail = B

\* --------------------------------------------------------------- C4

\* C4: a verify with a token Google accepts for a bootstrap admin returns a
\* credential with role admin and the normalised email as subject, in every
\* state and whatever the spreadsheet API would answer.
C4_BootstrapAlwaysAdmin ==
    (/\ Ran("verify")
     /\ resp.in.ans = "ok"
     /\ IdentityOf(resp.in.tok) \in BOOTSTRAP_ADMINS)
    => /\ resp.status = 200
       /\ resp.cred.payload.role = "admin"
       /\ resp.cred.payload.userId = IdentityOf(resp.in.tok)
       /\ resp.cred.sig = JWT_SECRET
       /\ resp.body.token = resp.cred

\* A bootstrap admin whose profile email is not in normal form logged in
\* while the spreadsheet has no users tab.
C4_Witness ==
    /\ Ran("verify")
    /\ resp.in.tok = Str("gB2")
    /\ resp.status = 200
    /\ resp.cred.payload.userId = B
    /\ ~sheet.tab

\* --------------------------------------------------------------- C5

\* The last row of the email in a list of rows, as lookupUser answers.
EntryOf(rows, e) ==
    IF \E i \in 1..Len(rows) : rows[i].email = e
    THEN LET i == CHOOSE k \in 1..Len(rows) :
                    rows[k].email = e /\ \A j \in (k + 1)..Len(rows) : rows[j].email # e
         IN [found |-> TRUE, email |-> e, role |-> rows[i].role]
    ELSE [found |-> FALSE, email |-> e, role |-> ""]

\* lookupUser(e) in the current state, the spreadsheet API answering.
Resolve(e) == LookupUser(World(NoFault), e).val

\* An admin token is available: the pointer is set and its entry is live.
AdminTokenLive ==
    /\ adminEmail \in DOMAIN store
    /\ now <= store[adminEmail].expiresAt

\* C5 as stated: while the roster does not change, the resolution of an
\* identity does not change, whatever happens to the pointer, the token
\* store and the cache.
C5_RoleFunctionOfIdentity ==
    [][sheet' = sheet
         => \A e \in Emails :
                LookupUser([store |-> store', adminEmail |-> adminEmail',
                            cache |-> cache', cacheTime |-> cacheTime',
                            sheet |-> sheet', now |-> now', calls |-> <<>>,
                            fault |-> NoFault], e).val = Resolve(e)]_vars

\* C5 amended: the resolution is a function of the identity, of whether an
\* admin token is available and of the snapshot in use: a bootstrap identity
\* resolves to admin; another identity resolves to null without an admin
\* token, and otherwise to its entry in the cache when that is within its
\* TTL, else in the roster.
C5_RoleDeterminism ==
    \A e \in Emails :
        Resolve(e) =
            IF e \in BOOTSTRAP_ADMINS THEN [found |-> TRUE, email |-> e, role |-> "admin"]
            ELSE IF ~AdminTokenLive THEN [found |-> FALSE, email |-> e, role |-> ""]
            ELSE IF ~cache.isNull /\ now - cacheTime <= TTL_MS
                 THEN EntryOf(cache.rows, e)
                 ELSE EntryOf(RosterRows, e)

\* An identity the roster lists was denied for want of an admin token.
C5_Witness ==
    /\ Ran("verify")
    /\ resp.in.ans = "ok"
    /\ IdentityOf(resp.in.tok) = U
    /\ InRoster(U)
    /\ resp.status = 403

\* --------------------------------------------------------------- C6

\* C6: two verify requests for the same identity in the same state, met by
\* the same upstream answers, get the same status and the same role,
\* whatever else their bodies hold.
C6_ClientCannotInfluenceRole ==
    \A b1, b2 \in VerifyBodies :
        (/\ b1.role # ""
         /\ b2.googleAccessToken.str \in GTokens
         /\ IdentityOf(b1.googleAccessToken) = IdentityOf(b2.googleAccessToken))
        => \A fault \in FaultsWithin(Len(Verify(World(NoFault), b2, "ok").w.calls)) :
           LET o1 == Verify(World(fault), b1, "ok")
               o2 == Verify(World(fault), b2, "ok")
           IN /\ o1.status = o2.status
              /\ o1.cred.payload.role = o2.cred.payload.role
              /\ o1.status = 200 => o1.body.user.role = o2.body.user.role

\* A client that posted role = admin received a credential with role user.
C6_Witness ==
    /\ Ran("verify")
    /\ resp.in.role = "admin"
    /\ resp.status = 200
    /\ resp.cred.payload.role = "user"

\* --------------------------------------------------------------- C7

\* The strings of the claims of a credential, the identity fields apart.
PayloadStrings(p) == {p[f] : f \in DOMAIN p \ {"userId", "name", "email", "picture"}}

\* The strings a response body holds, at any depth.
BodyStrings(b) ==
    {b[f] : f \in DOMAIN b \cap {"error", "code", "tokenExpiresIn", "sheetName",
                                 "tabName"}}
    \cup (IF "user" \in DOMAIN b THEN PayloadStrings(b.user) ELSE {})
    \cup (IF "token" \in DOMAIN b
          THEN PayloadStrings(b.token.payload) \cup {b.token.sig} ELSE {})
    \cup (IF "users" \in DOMAIN b
          THEN {b.users[i].role : i \in 1..Len(b.users)} ELSE {})
    \cup (IF "values" \in DOMAIN b
          THEN {b.values[i].role : i \in 1..Len(b.values)} ELSE {})

\* C7: no response body of any route holds a Google access token in
\* plaintext.
C7_NoPlaintextTokenInBody == BodyStrings(resp.body) \cap GTokens = {}

\* A credential was returned while the server holds the token it was
\* issued for.
C7_Witness ==
    /\ Ran("verify")
    /\ resp.status = 200
    /\ resp.cred.payload.userId \in DOMAIN store
    /\ store[resp.cred.payload.userId].googleToken = resp.in.tok.str
    /\ resp.in.tok.str \in GTokens

\* --------------------------------------------------------------- C8

\* C8: the first spreadsheet proxy request after a cold start, carrying a
\* credential that is valid and was issued less than a Google-token lifetime
\* ago, is not refused with GOOGLE_TOKEN_EXPIRED.
C8_ColdStartKeepsGoogleToken ==
    [][(/\ resp.op = "coldstart"
        /\ resp'.op = "sheets/data"
        /\ resp'.authed
        /\ now' < resp'.hdr.token.iat * 1000 + GOOGLE_TOKEN_TTL_MS)
         => CodeOf(resp'.body) # "GOOGLE_TOKEN_EXPIRED"]_vars

\* --------------------------------------------------------------- C9

\* C9: the claims of a credential returned by verify hold the encrypted
\* blob of the token of the request, and the advisory expiry of that token.
C9_CredentialCarriesBlob ==
    (Ran("verify") /\ resp.status = 200)
    => /\ "encryptedGoogleToken" \in DOMAIN resp.cred.payload
       /\ "googleTokenExpiresAt" \in DOMAIN resp.cred.payload
       /\ DecryptToken(resp.cred.payload.encryptedGoogleToken)
            = Plain(TokenChars(resp.in.tok.str))
       /\ resp.cred.payload.googleTokenExpiresAt = now + GOOGLE_TOKEN_TTL_MS

\* -------------------------------------------------------------- C10

\* C10: a credential the server signed, presented at or after its expiry,
\* is refused with 401 TOKEN_EXPIRED on every protected route, and no
\* handler runs.
C10_ExpiredCredentialRejected ==
    /\ (/\ resp.hdr.kind = "bearer"
        /\ resp.hdr.token.sig = JWT_SECRET
        /\ Seconds(now) >= resp.hdr.token.exp)
       => /\ resp.status = 401
          /\ CodeOf(resp.body) = "TOKEN_EXPIRED"
          /\ ~resp.authed
          /\ resp.calls = <<>>
    /\ \A e \in DOMAIN creds :
         Seconds(now) >= creds[e].exp
         => RequireAuth(Bearer(creds[e]), now) =
              [next |-> FALSE, status |-> 401, code |-> "TOKEN_EXPIRED", user |-> NoUser]

\* An expired credential was refused on a roster route while the token store
\* still held an entry for its subject.
C10_Witness ==
    /\ resp.hdr.kind = "bearer"
    /\ resp.hdr.token.sig = JWT_SECRET
    /\ Seconds(now) >= resp.hdr.token.exp
    /\ resp.hdr.token.payload.userId \in DOMAIN store
    /\ resp.op = "users DELETE"
    /\ resp.status = 401

\* -------------------------------------------------------------- C11

\* The routes mounted behind requireAuth.
ProtectedOps ==
    {"me", "logout", "refresh-google", "users GET", "users POST", "users PUT",
     "users DELETE", "sheets/data", "sheets/append", "sheets/row PUT",
     "sheets/row DELETE", "sheets/ensure-tab", "sheets/tab-data"}

\* The header carries a credential signed with the server secret and not
\* yet expired at time t.
ValidBearer(hdr, t) ==
    /\ hdr.kind = "bearer"
    /\ hdr.token.sig = JWT_SECRET
    /\ Seconds(t) < hdr.token.exp

\* C11: on every protected route the handler runs exactly when the request
\* carries a valid bearer credential; otherwise the request ends with 401,
\* req.user is not set, no upstream call is made and the token store, the
\* admin pointer, the roster cache, the spreadsheet and the clients'
\* credentials are unchanged.
C11_NoPartialTrust ==
    [][resp'.op \in ProtectedOps
         => /\ resp'.authed <=> ValidBearer(resp'.hdr, now')
            /\ resp'.authed => resp'.user = resp'.hdr.token.payload
            /\ ~resp'.authed
                 => /\ resp'.status = 401
                    /\ resp'.user = NoUser
                    /\ resp'.calls = <<>>
                    /\ resp'.cred = NoCred
                    /\ UNCHANGED <<store, adminEmail, cache, cacheTime, sheet, creds>>]_vars

\* A credential claiming role admin, signed with another secret, was refused
\* on a mutating roster route.
C11_Witness ==
    /\ resp.op = "users POST"
    /\ resp.hdr.kind = "bearer"
    /\ resp.hdr.token.sig = OtherSecret
    /\ resp.hdr.token.payload.role = "admin"
    /\ Seconds(now) < resp.hdr.token.exp
    /\ resp.status = 401
    /\ ~resp.authed

\* -------------------------------------------------------------- C12

\* The token of a verify request is a non-empty string, the identity
\* endpoint accepted it and the profile it returned has an email.
IssuePreconditions(in) ==
    /\ in.tok.type = "string"
    /\ in.tok.str # ""
    /\ in.ans = "ok"
    /\ trim(toLowerCase(ProfileEmail(in.tok.str))) # Empty

\* A credential was minted only under the three preconditions, and its
\* subject is the profile's email, lower-cased and trimmed.
MintedOnlyFor(in) ==
    resp.cred # NoCred
    => /\ IssuePreconditions(in)
       /\ resp.status = 200
       /\ resp.cred.payload.userId = trim(toLowerCase(ProfileEmail(in.tok.str)))
       /\ resp.cred.payload.email = resp.cred.payload.userId

\* A token that is not a non-empty string is answered 400, whatever the
\* identity endpoint would have answered: it is not asked.
BadInputIs400(in) ==
    (in.tok.type # "string" \/ in.tok.str = "")
    => /\ resp.status = 400
       /\ resp.in.ans = "none"
       /\ \A a \in {"ok", "notok", "throw"} :
            Verify(World(NoFault), [googleAccessToken |-> in.tok, role |-> in.role], a).status
              = 400

\* C12 as stated: verify mints a credential only under the three
\* preconditions, and ends with 400 or 401 when one of them fails.
C12_IssueOr400Or401 ==
    Ran("verify")
    => /\ MintedOnlyFor(resp.in)
       /\ BadInputIs400(resp.in)
       /\ ~IssuePreconditions(resp.in) => resp.status \in {400, 401}

\* C12 amended: when one of them fails, verify ends with 400 for a bad
\* input, with 401 when the endpoint rejects the token or the profile has no
\* email, and with 500 when the call to the endpoint fails.
C12_IssuePreconditions ==
    Ran("verify")
    => /\ MintedOnlyFor(resp.in)
       /\ BadInputIs400(resp.in)
       /\ ~IssuePreconditions(resp.in)
            => /\ resp.cred = NoCred
               /\ resp.status =
                    (CASE resp.in.tok.type # "string" \/ resp.in.tok.str = "" -> 400
                       [] resp.in.ans = "throw" -> 500
                       [] OTHER -> 401)

\* A credential was minted for a profile whose email is not in normal form.
C12_Witness ==
    /\ Ran("verify")
    /\ resp.in.tok = Str("gU1")
    /\ resp.status = 200
    /\ resp.cred.payload.userId = U
    /\ ProfileEmail("gU1") # U

\* -------------------------------------------------------------- C13

\* C13: the role of every credential the server issued is admin or user.
C13_RoleInClosedSet ==
    /\ resp.cred # NoCred => resp.cred.payload.role \in {"admin", "user"}
    /\ \A e \in DOMAIN creds : creds[e].payload.role \in {"admin", "user"}

\* -------------------------------------------------------------- C14

\* The routes that are for admins only.
AdminOps == {"users GET", "users POST", "users PUT", "users DELETE"}

\* C14: on a protected route req.user is the claim set of the credential
\* presented; an admin-only route answers 403 exactly when the role claim
\* is not admin, and refresh-google moves the admin pointer exactly when
\* the role claim is admin, whatever the roster says of the identity now.
C14_RoleFixedAtIssuance ==
    [][(resp'.op \in ProtectedOps /\ resp'.authed)
         => /\ resp'.user = resp'.hdr.token.payload
            /\ resp'.op \in AdminOps
                 => (resp'.status = 403 <=> resp'.hdr.token.payload.role # "admin")
            /\ (resp'.op = "refresh-google" /\ resp'.status = 200)
                 => adminEmail' = IF resp'.hdr.token.payload.role = "admin"
                                  THEN resp'.hdr.token.payload.userId
                                  ELSE adminEmail]_vars

\* A credential issued with role admin passed the admin gate after the
\* roster had demoted its subject to user.
C14_Witness ==
    /\ resp.op = "users GET"
    /\ resp.authed
    /\ resp.user.userId = U
    /\ resp.user.role = "admin"
    /\ resp.status = 200
    /\ EntryOf(RosterRows, U).role = "user"

\* -------------------------------------------------------------- C15

\* The rows readAllRows returns for the spreadsheet sh.
RowsOf(sh) == IF sh.tab /\ Len(sh.values) >= 2 THEN MapRows(sh.values, 2) ELSE <<>>

\* The roster mutations, run in the current state.
Mutations ==
    {AddUser(World(NoFault), <<"N">>, "user"),
     RemoveUser(World(NoFault), 2, UsersSheetId),
     UpdateUserRole(World(NoFault), 2, "admin")}

CacheWithinTtl == ~cache.isNull /\ now - cacheTime <= TTL_MS

\* The boundary of C16: a snapshot exactly TTL_MS old is served from the
\* cache, one a millisecond older is read again.
C16_TtlBoundary ==
    (/\ ~cache.isNull
     /\ adminEmail \in DOMAIN store
     /\ cacheTime + TTL_MS + 1 <= store[adminEmail].expiresAt)
    => \A e \in Emails \ BOOTSTRAP_ADMINS :
         /\ LookupUser([World(NoFault) EXCEPT !.now = cacheTime + TTL_MS], e).w.calls = <<>>
         /\ LookupUser([World(NoFault) EXCEPT !.now = cacheTime + TTL_MS + 1], e).w.calls
              # <<>>
         /\ GetAllUsers([World(NoFault) EXCEPT !.now = cacheTime + TTL_MS]).w.calls = <<>>
         /\ GetAllUsers([World(NoFault) EXCEPT !.now = cacheTime + TTL_MS + 1]).w.calls
              # <<>>

Quiescent == \A i \in DOMAIN tasks : tasks[i].pc = ""

\* C17: what every execution of the userStore calls one after another
\* guarantees holds under every interleaving: when no call is in flight, the
\* cache is null or holds the rows of the spreadsheet.
C17_InterleavingsAreSequential ==
    Quiescent => (cache.isNull \/ cache.rows = RosterRows)

\* -------------------------------------------------------------- C18

\* The token store holds a live Google token of the subject of user.
OwnTokenLive(user) ==
    /\ user.userId \in DOMAIN store
    /\ now <= store[user.userId].expiresAt

\* lookupUser answers null for every identity off the bootstrap list,
\* without a call to the spreadsheet API.
LookupDegraded ==
    \A e \in Emails \ BOOTSTRAP_ADMINS :
        /\ ~LookupUser(World(NoFault), e).threw
        /\ LookupUser(World(NoFault), e).val = NotFound(e)
        /\ LookupUser(World(NoFault), e).w.calls = <<>>

\* The answer of GET /users in resp is the bootstrap list, sheetReady false.
BootstrapOnly(r) ==
    /\ r.status = 200
    /\ r.body = [users |-> BootstrapUsers, sheetId |-> -1, sheetReady |-> FALSE]
    /\ r.calls = <<>>

BootstrapRosterSheets ==
    {[tab |-> TRUE, values |-> <<USERS_HEADERS, [email |-> <<"B", " ">>, role |-> r]>>] :
       r \in {"", "user", "admin"}}

InitBootstrapRoster ==
    /\ store = NoStore
    /\ adminEmail = Empty
    /\ cache = NullCache
    /\ cacheTime = 0
    /\ sheet \in InitSheets \cup BootstrapRosterSheets
    /\ creds = NoStore
    /\ now = 0
    /\ ticks = 0
    /\ resp = Event("init")
    /\ tasks = <<>>
    /\ NoService

\* Every route of the API, deployed against a users tab that may list b.
SpecBootstrapRoster == InitBootstrapRoster /\ [][NextRoutes]_vars

\* The operations on /api/auth/users.
RosterRoutes == {"users GET", "users POST", "users PUT", "users DELETE"}

\* resp is the answer of a users route that carries the list of getAllUsers.
ListsRoster ==
    /\ resp.op \in RosterRoutes
    /\ resp.status = 200
    /\ resp.body.sheetReady

\* The entries of the list in resp for the identity e.
EntriesOf(e) == {i \in 1..Len(resp.body.users) : resp.body.users[i].email = e}

\* lookupUser resolves every bootstrap identity, however it is written, to
\* role admin, without a call to the spreadsheet API.
BootstrapResolvesAdmin ==
    \A written \in (BOOTSTRAP_ADMINS
                     \cup {ADMIN_EMAILS[i] : i \in 1..Len(ADMIN_EMAILS)}) \ {Empty} :
        /\ ~LookupUser(World(NoFault), written).threw
        /\ LookupUser(World(NoFault), written).val
             = [found |-> TRUE, email |-> NormEmail(written), role |-> "admin"]
        /\ LookupUser(World(NoFault), written).w.calls = <<>>

\* C19 as stated: whatever the roster holds and whatever the users routes
\* did, lookupUser resolves every bootstrap identity to admin and
\* getAllUsers lists it with role admin.
C19_BootstrapListedAsAdmin ==
    /\ BootstrapResolvesAdmin
    /\ ListsRoster
         => \A e \in BOOTSTRAP_ADMINS :
               /\ EntriesOf(e) # {}
               /\ \A i \in EntriesOf(e) : resp.body.users[i].role = "admin"

\* C19 amended: lookupUser resolves every bootstrap identity to admin, and
\* getAllUsers lists it exactly once, with role admin when the roster read
\* holds no row for it and as that row otherwise.
C19_BootstrapListedOnce ==
    /\ BootstrapResolvesAdmin
    /\ ListsRoster
         => \A e \in BOOTSTRAP_ADMINS :
               /\ Cardinality(EntriesOf(e)) = 1
               /\ \A i \in EntriesOf(e) :
                     IF \E j \in 1..Len(cache.rows) : cache.rows[j].email = e
                     THEN \E j \in 1..Len(cache.rows) : cache.rows[j] = resp.body.users[i]
                     ELSE resp.body.users[i] = [rowIndex |-> 0, email |-> e, role |-> "admin"]

\* PUT /users/2 wrote role user into the row of the bootstrap admin b: the
\* list shows b as a user while lookupUser resolves b to admin.
C19_Witness ==
    /\ resp.op = "users PUT"
    /\ ListsRoster
    /\ \E i \in EntriesOf(B) : resp.body.users[i].role = "user"
    /\ LookupUser(World(NoFault), B).val.role = "admin"

\* -------------------------------------------------------------- C20

\* The routes that call setAdminEmail.
PointerSetters == {"verify", "refresh-google"} \cup AdminOps

\* The role e holds when the request arrives: admin on the bootstrap list,
\* the role of its roster row otherwise ("" without a row).
CurrentRole(e) ==
    IF e \in BOOTSTRAP_ADMINS THEN "admin" ELSE EntryOf(RosterRows, e).role

\* The identity the request in r acts for: the owner of the Google token
\* on /verify, the subject of the credential elsewhere.
Requester(r) ==
    IF r.op = "verify"
    THEN IF r.in.tok.type = "string" THEN NormEmail(ProfileEmail(r.in.tok.str)) ELSE Empty
    ELSE r.user.userId

\* The pointer changes only when a request of a pointer-setting route sets
\* it to the requester, or when it is cleared.
PointerFollowsRequests ==
    (adminEmail' # adminEmail /\ adminEmail' # Empty)
        => /\ resp'.op \in PointerSetters
           /\ adminEmail' = Requester(resp')
           /\ resp'.op = "verify" => resp'.status = 200

\* C20 as stated: the pointer is only assigned the requester of a verify,
\* refresh-google or roster request, never one that was denied, and that
\* identity holds the admin role (bootstrap, or admin in the roster) when
\* it is assigned.
C20_PointerIsCurrentAdmin ==
    [][/\ PointerFollowsRequests
       /\ (adminEmail' # adminEmail /\ adminEmail' # Empty)
            => CurrentRole(adminEmail') = "admin"]_vars

\* C20 amended: the pointer is only assigned the requester of a verify,
\* refresh-google or roster request, never one that was denied; the
\* identity is a bootstrap admin, or lookupUser resolved it to admin in that
\* verify, or the credential presented carries the role claim admin; and
\* its Google token is in the token store.
C20_PointerIsAdminByCredential ==
    [][/\ PointerFollowsRequests
       /\ (adminEmail' # adminEmail /\ adminEmail' # Empty)
            => /\ adminEmail' \in DOMAIN store'
               /\ \/ adminEmail' \in BOOTSTRAP_ADMINS
                  \/ /\ resp'.op = "verify"
                     /\ resp'.cred # NoCred
                     /\ resp'.cred.payload.userId = adminEmail'
                     /\ resp'.cred.payload.role = "admin"
                  \/ /\ resp'.op # "verify"
                     /\ resp'.authed
                     /\ resp'.hdr.token.payload.role = "admin"]_vars

\* refresh-google made u the active admin on the strength of a credential
\* issued with role admin, the roster listing u as a user.
C20_Witness ==
    /\ resp.op = "refresh-google"
    /\ resp.status = 200
    /\ resp.user.role = "admin"
    /\ adminEmail = U
    /\ CurrentRole(U) = "user"

\* -------------------------------------------------------------- C21

\* C21: a refresh-google that ends with 400, 401, 403 or 500 leaves the
\* token store, the admin pointer, the roster cache, the spreadsheet and the
\* clients' credentials as they were, and the credential the caller
\* presented is still accepted.
C21_FailedRefreshChangesNothing ==
    [][(resp'.op = "refresh-google" /\ resp'.status \in {400, 401, 403, 500})
         => /\ UNCHANGED <<store, adminEmail, cache, cacheTime, sheet, creds>>
            /\ resp'.calls = <<>>
            /\ resp'.cred = NoCred
            /\ resp'.authed => RequireAuth(resp'.hdr, now').next]_vars

\* A refresh with the token of another account was refused with 403 while
\* the caller's own token was stored.
C21_Witness ==
    /\ resp.op = "refresh-google"
    /\ resp.authed
    /\ resp.status = 403
    /\ resp.in.tok.type = "string"
    /\ resp.user.userId \in DOMAIN store
    /\ store[resp.user.userId].googleToken # resp.in.tok.str

\* -------------------------------------------------------------- C22

\* The spreadsheet proxy routes.
SheetsOps ==
    {"sheets/data", "sheets/append", "sheets/row PUT", "sheets/row DELETE",
     "sheets/ensure-tab", "sheets/tab-data"}

MaxLog == 4

\* The time that passes between two calls: a millisecond, or the lifetime
\* the store gives a token.
VaultSteps == {1, GOOGLE_TOKEN_TTL_MS}

\* tokenStore.set(userId, googleToken) is called.
CallSet ==
    /\ Len(log) < MaxLog
    /\ \E u \in Emails : \E t \in {"gB1", "gB2"} :
         /\ store' = TokenStoreSet(store, u, t, now)
         /\ log' = Append(log, [fn |-> "set", userId |-> u, token |-> t,
                                at |-> now, out |-> ""])
    /\ UNCHANGED <<adminEmail, cache, cacheTime, sheet, creds, now, ticks, resp, tasks,
                   cachedToken, tokenExpiresAt, serviceKey>>

\* tokenStore.get(userId) is called.
CallGet ==
    /\ Len(log) < MaxLog
    /\ \E u \in Emails :
         /\ store' = TokenStoreGet(store, u, now).store
         /\ log' = Append(log, [fn |-> "get", userId |-> u, token |-> "",
                                at |-> now, out |-> TokenStoreGet(store, u, now).token])
    /\ UNCHANGED <<adminEmail, cache, cacheTime, sheet, creds, now, ticks, resp, tasks,
                   cachedToken, tokenExpiresAt, serviceKey>>

\* tokenStore.delete(userId) is called.
CallDelete ==
    /\ Len(log) < MaxLog
    /\ \E u \in Emails :
         /\ store' = TokenStoreDelete(store, u)
         /\ log' = Append(log, [fn |-> "delete", userId |-> u, token |-> "",
                                at |-> now, out |-> ""])
    /\ UNCHANGED <<adminEmail, cache, cacheTime, sheet, creds, now, ticks, resp, tasks,
                   cachedToken, tokenExpiresAt, serviceKey>>

\* Time passes between two calls.
Elapse ==
    /\ ticks < MaxTicks
    /\ \E d \in VaultSteps : now' = now + d
    /\ ticks' = ticks + 1
    /\ UNCHANGED <<store, adminEmail, cache, cacheTime, sheet, creds, resp, tasks, svcVars>>

InitTokenStore ==
    /\ store = NoStore
    /\ adminEmail = Empty
    /\ cache = NullCache
    /\ cacheTime = 0
    /\ sheet = [tab |-> FALSE, values |-> <<>>]
    /\ creds = NoStore
    /\ now = 0
    /\ ticks = 0
    /\ resp = Event("init")
    /\ tasks = <<>>
    /\ NoService

NextTokenStore == CallSet \/ CallGet \/ CallDelete \/ Elapse

\* The token store of one warm instance, called in any order.
SpecTokenStore == InitTokenStore /\ [][NextTokenStore]_vars

\* The set that the get at position i of the log can answer from: the
\* latest call of set or delete for its userId before i, when that call is
\* a set made at most 55 minutes before the get.
ServingSet(i) ==
    {j \in 1..(i - 1) :
        /\ log[j].fn = "set"
        /\ log[j].userId = log[i].userId
        /\ log[i].at - log[j].at <= 55 * 60 * 1000
        /\ \A k \in (j + 1)..(i - 1) :
              log[k].userId = log[i].userId => log[k].fn = "get"}

\* C23: get answers a token exactly when a set for that userId was called at
\* most 55 minutes earlier with no delete since, the token is that of the
\* most recent set, every other get answers null, and after a get that
\* answered null the store holds no entry for the userId.
C23_GetAnswersLatestLiveSet ==
    \A i \in 1..Len(log) :
        log[i].fn = "get"
            => /\ log[i].out # "" <=> ServingSet(i) # {}
               /\ \A j \in ServingSet(i) : log[i].out = log[j].token
               /\ (i = Len(log) /\ log[i].out = "")
                    => log[i].userId \notin DOMAIN store

\* A second set superseded the first, the get answered the second token
\* at the 55th minute, and the next get, a millisecond later, answered null.
C23_Witness ==
    /\ Len(log) = 4
    /\ log[1].fn = "set" /\ log[1].userId = U /\ log[1].token = "gB1"
    /\ log[2].fn = "set" /\ log[2].userId = U /\ log[2].token = "gB2"
    /\ log[3].fn = "get" /\ log[3].userId = U /\ log[3].out = "gB2"
    /\ log[3].at - log[2].at = GOOGLE_TOKEN_TTL_MS
    /\ log[4].fn = "get" /\ log[4].userId = U /\ log[4].out = ""
    /\ log[4].at = log[3].at + 1

\* ------------------------------------------------- the vault, called

\* The number of calls of encrypt and decrypt in a log.
MaxVault == 2

\* The token strings handed to encrypt.
Plaintexts == {TokenChars(t) : t \in GTokens}

\* The blobs encrypt has returned so far.
Produced == {log[i].out : i \in {j \in 1..Len(log) : log[j].fn = "encrypt"}}

\* The character at position n of a blob with the pairs at the places in
\* set changed, as flipping bits of the character does.
FlipPairs(blob, n, set) ==
    [blob EXCEPT ![n] = [t \in 1..3 |-> IF t \in set THEN [v |-> [k |-> "flipped"], q |-> 0]
                                           ELSE blob[n][t]]]

\* The strings that differ from a blob in one character: another character
\* of the alphabet, or one off the alphabet.
CharFlips(blob) ==
    {FlipPairs(blob, n, set) : n \in 1..Len(blob), set \in (SUBSET {1, 2, 3}) \ {{}}}
    \cup {[blob EXCEPT ![n] = InvalidChar] : n \in 1..Len(blob)}

\* The encodings of the buffers that differ from the buffer of a blob in
\* one byte.
ByteFlips(blob) ==
    {ToBase64Url([FromBase64Url(blob) EXCEPT ![i] = Garbled]) :
        i \in 1..Len(FromBase64Url(blob))}

\* The proper prefixes of a blob.
Truncations(blob) == {SubSeq(blob, 1, n) : n \in 0..(Len(blob) - 1)}

\* The blobs of the same tokens encrypted under another secret.
Foreign == {EncryptUnder(OtherSecret, p, RandomBytes(id)) : p \in Plaintexts, id \in 1..2}

\* The string "not-a-valid-blob": sixteen characters of the alphabet that
\* no encryption produced.
NotAValidBlob == [n \in 1..16 |-> [t \in 1..3 |-> [v |-> [k |-> "raw"], q |-> 0]]]

\* tokenStore.encrypt(googleToken) is called.
CallEncrypt ==
    /\ Len(log) < MaxVault
    /\ \E p \in Plaintexts : \E id \in 1..2 :
         log' = Append(log, [fn |-> "encrypt", in |-> p, iv |-> RandomBytes(id),
                             out |-> EncryptToken(p, RandomBytes(id))])
    /\ UNCHANGED <<store, adminEmail, cache, cacheTime, sheet, creds, now, ticks, resp,
                   tasks, cachedToken, tokenExpiresAt, serviceKey>>

\* decryptToken(blob) is called with a blob encrypt returned, with a blob
\* changed or cut on the way, or with any other string.
CallDecrypt ==
    /\ Len(log) < MaxVault
    /\ \E blob \in Produced
                   \cup UNION {CharFlips(b) \cup ByteFlips(b) \cup Truncations(b) :
                               b \in Produced}
                   \cup Foreign \cup {NotAValidBlob} :
         log' = Append(log, [fn |-> "decrypt", in |-> blob, out |-> DecryptToken(blob)])
    /\ UNCHANGED <<store, adminEmail, cache, cacheTime, sheet, creds, now, ticks, resp,
                   tasks, cachedToken, tokenExpiresAt, serviceKey>>

NextVault == CallEncrypt \/ CallDecrypt

\* The vault functions called in any order; the log starts empty.
SpecVault == InitTokenStore /\ [][NextVault]_vars

\* -------------------------------------------------------------- C24

\* C24: decryptToken of a blob that encryptToken returned for the string T,
\* under the same secret, is T.
C24_RoundTrip ==
    \A i, j \in 1..Len(log) :
        (log[i].fn = "encrypt" /\ log[j].fn = "decrypt" /\ log[j].in = log[i].out)
            => log[j].out = Plain(log[i].in)

\* A three-character token was encrypted and its blob decrypted.
C24_Witness ==
    /\ Len(log) = 2
    /\ log[1].fn = "encrypt"
    /\ Len(log[1].in) = 3
    /\ log[2].fn = "decrypt"
    /\ log[2].in = log[1].out
    /\ ~log[2].out.null

\* -------------------------------------------------------------- C25

\* The blobs encryptToken can return under the server's secret.
OwnBlobs == {EncryptToken(p, RandomBytes(id)) : p \in Plaintexts, id \in 1..2}

\* The strings that differ from a blob in padding bits only: those of its
\* last character, when the buffer is no multiple of 3 bytes long.
SlackFlips(blob) ==
    {FlipPairs(blob, Len(blob), set) :
        set \in (SUBSET {t \in 1..3 : blob[Len(blob)][t] = ZeroPair}) \ {{}}}

\* C25 as stated: decryptToken answers null for every string that is not a
\* blob encryptToken returned under the same secret: a blob with a character
\* or a byte changed, a blob cut short, a blob of another secret, any other
\* string.
C25_NullUnlessUnmodified ==
    \A j \in 1..Len(log) :
        (log[j].fn = "decrypt" /\ log[j].in \notin OwnBlobs) => log[j].out = Null

\* What holds of decryptToken: it answers null for every string whose
\* decoded bytes are not the bytes of such a blob; a blob whose last
\* character differs in its padding bits only decodes to the same bytes and
\* decrypts to the token.
NullUnlessSameBytes ==
    \A j \in 1..Len(log) :
        log[j].fn = "decrypt"
            => IF \E b \in OwnBlobs : FromBase64Url(log[j].in) = FromBase64Url(b)
               THEN \E b \in OwnBlobs :
                       /\ FromBase64Url(log[j].in) = FromBase64Url(b)
                       /\ log[j].out = DecryptToken(b)
                       /\ ~log[j].out.null
               ELSE log[j].out = Null

\* A blob with the padding bits of its last character changed was
\* decrypted to the token, and differs from the blob encrypt returned.
PaddingFlipDecrypts ==
    /\ Len(log) = 2
    /\ log[1].fn = "encrypt"
    /\ log[2].fn = "decrypt"
    /\ log[2].in \in SlackFlips(log[1].out)
    /\ log[2].in # log[1].out
    /\ log[2].out = Plain(log[1].in)

\* -------------------------------------------------------------- C26

\* The pairs of calls of encrypt in the log.
EncryptPairs ==
    {<<i, j>> \in (1..Len(log)) \X (1..Len(log)) :
        i < j /\ log[i].fn = "encrypt" /\ log[j].fn = "encrypt"}

FailedCalls(calls) == {i \in 1..Len(calls) : calls[i].status # 200}

\* Call j of the request was started before the answer to call i came.
StartedBefore(calls, j, i) ==
    /\ "beside" \in DOMAIN calls[j]
    /\ calls[j].beside <= i

\* The call of the request in r to the identity endpoint failed: it was
\* answered with an error status, or the fetch threw.
IdentityFailed(r) ==
    /\ r.op = "verify" \/ (r.op = "refresh-google" /\ r.authed)
    /\ r.in.ans \in {"notok", "throw"}

\* C27: within one request no call to the spreadsheet API is started
\* after a call of that request failed, a request whose identity call
\* failed is answered 401 (500 when the fetch threw) without any further
\* call, and a proxy route
\* whose upstream call failed answers with the status of that call.
C27_FailuresSurfacedNotRetried ==
    /\ \A i \in FailedCalls(resp.calls) :
         \A j \in (i + 1)..Len(resp.calls) : StartedBefore(resp.calls, j, i)
    /\ IdentityFailed(resp)
         => /\ resp.status = IF resp.in.ans = "notok" THEN 401 ELSE 500
            /\ resp.calls = <<>>
    /\ (resp.op \in SheetsOps /\ FailedCalls(resp.calls) # {})
         => \A i \in FailedCalls(resp.calls) : resp.status = resp.calls[i].status

\* A proxy route whose second upstream call failed with 500, and said so.
C27_Witness ==
    /\ resp.op \in SheetsOps
    /\ Len(resp.calls) = 2
    /\ resp.calls[2].status = 500
    /\ resp.status = 500

\* ------------------------------------------------------------------
\* serviceAccount: getServiceToken

\* The values GOOGLE_SERVICE_ACCOUNT_KEY can hold: not set, text that is
\* not JSON, JSON that is no key (null, or an object without private_key),
\* and the JSON of a key.
RawKeys == {"", "{oops", "null", "{}", "key-json"}

\* getKey(): null ("" here) when the variable is not set or JSON.parse
\* throws, the parsed value otherwise (the value null is null too).
ServiceGetKey(raw) ==
    IF raw = "" THEN ""
    ELSE IF raw = "{oops" THEN ""
    ELSE IF raw = "null" THEN ""
    ELSE raw

\* sign.sign(key.private_key, 'base64url') throws without a private key.
CanSign(key) == key = "key-json"

\* The lifetimes the token endpoint grants, in seconds.
ExpiresIn == {3599, 3600}

\* What the token endpoint answers: a token with its lifetime, or an error.
ExchangeAnswers ==
    [ok : {TRUE}, expires_in : ExpiresIn] \cup {[ok |-> FALSE, expires_in |-> 0]}

\* The longest a fetch stays unanswered before it throws: the time the
\* runtime waits for the headers and for the body of a response.
FetchTimeoutMs == 2 * 300 * 1000

\* Faulty variant of fetchNewToken: the expiry is not moved 5 minutes ahead.
FetchNewTokenAnswer_NoMargin(t, ans, token) ==
    IF ~ans.ok THEN Throw(0, "Service account token error")
    ELSE Ret(0, [token |-> token, expiresAt |-> t + ans.expires_in])

\* fetchNewToken(key) after the exchange was answered: t is the now it
\* took before the exchange (in seconds), token the access_token of the
\* answer.
FetchNewTokenAnswer(t, ans, token) ==
    IF ~ans.ok THEN Throw(0, "Service account token error")
    ELSE Ret(0, [token |-> token, expiresAt |-> t + ans.expires_in - 300])

\* if (cachedToken && now < tokenExpiresAt) return cachedToken
CacheHit(t) == cachedToken # NoToken /\ Seconds(t) < tokenExpiresAt

\* What a call of getServiceToken that ended is logged with: the time it
\* returned, what it did ("null", "throw", or "token" for a return of
\* the token out), whether the token came from the cache, and cachedToken
\* and tokenExpiresAt before and after.
ServiceEntry(did, out, hit, after) ==
    [fn |-> "getServiceToken", at |-> now, did |-> did, out |-> out, hit |-> hit,
     key |-> serviceKey,
     was |-> <<cachedToken, tokenExpiresAt>>, cache |-> after]

\* getServiceToken() is called: it returns at once (no key, or a cached
\* token), throws while signing, or starts the exchange and awaits it.
CallGetServiceToken ==
    /\ Len(log) + Len(tasks) < MaxLog
    /\ IF ServiceGetKey(serviceKey) = ""
       THEN /\ log' = Append(log, ServiceEntry("null", NoToken, FALSE,
                                     <<cachedToken, tokenExpiresAt>>))
            /\ UNCHANGED tasks
       ELSE IF CacheHit(now)
       THEN /\ log' = Append(log, ServiceEntry("token", cachedToken, TRUE,
                                     <<cachedToken, tokenExpiresAt>>))
            /\ UNCHANGED tasks
       ELSE IF ~CanSign(ServiceGetKey(serviceKey))
       THEN /\ log' = Append(log, ServiceEntry("throw", NoToken, FALSE,
                                     <<cachedToken, tokenExpiresAt>>))
            /\ UNCHANGED tasks
       ELSE /\ tasks' = Append(tasks, [op |-> "getServiceToken", pc |-> "exchange",
                                       start |-> Seconds(now), startMs |-> now])
            /\ UNCHANGED log
    /\ UNCHANGED <<store, adminEmail, cache, cacheTime, sheet, creds, now, ticks, resp,
                   cachedToken, tokenExpiresAt, serviceKey>>

\* The tasks without the one at position i.
WithoutTask(i) == SubSeq(tasks, 1, i - 1) \o SubSeq(tasks, i + 1, Len(tasks))

\* The exchange a call awaits is answered, or its fetch throws: the call
\* assigns cachedToken and tokenExpiresAt and returns the token, or throws.
\* The token is the one the endpoint issued at some time since the fetch
\* began, for the lifetime it states.
ExchangeAnswer ==
    \E i \in 1..Len(tasks) :
      /\ tasks[i].op = "getServiceToken"
      /\ \E ans \in ExchangeAnswers : \E issued \in {tasks[i].startMs, now} :
           LET late == now - tasks[i].startMs > FetchTimeoutMs
               f == FetchNewTokenAnswer(tasks[i].start, ans,
                       [started |-> tasks[i].start, issued |-> issued,
                        expires_in |-> ans.expires_in])
           IN IF late \/ f.threw
              THEN /\ log' = Append(log, ServiceEntry("throw", NoToken, FALSE,
                                     <<cachedToken, tokenExpiresAt>>))
                   /\ UNCHANGED <<cachedToken, tokenExpiresAt>>
              ELSE /\ cachedToken' = f.val.token
                   /\ tokenExpiresAt' = f.val.expiresAt
                   /\ log' = Append(log, ServiceEntry("token", f.val.token, FALSE,
                                     <<f.val.token, f.val.expiresAt>>))
      /\ tasks' = WithoutTask(i)
    /\ UNCHANGED <<store, adminEmail, cache, cacheTime, sheet, creds, now, ticks, resp,
                   serviceKey>>

\* The time that passes between two steps: half a second, the time a fetch
\* may take to send its headers, and the time after which a token of 3599
\* seconds granted at time 0 is one second short of its last 5 minutes.
ServiceSteps == {500, 300 * 1000, 3298 * 1000 + 500}

ElapseService ==
    /\ ticks < MaxTicks + 1
    /\ \E d \in ServiceSteps : now' = now + d
    /\ ticks' = ticks + 1
    /\ UNCHANGED <<store, adminEmail, cache, cacheTime, sheet, creds, resp, tasks, svcVars>>

InitService ==
    /\ store = NoStore
    /\ adminEmail = Empty
    /\ cache = NullCache
    /\ cacheTime = 0
    /\ sheet = [tab |-> FALSE, values |-> <<>>]
    /\ creds = NoStore
    /\ now = 0
    /\ ticks = 0
    /\ resp = Event("init")
    /\ tasks = <<>>
    /\ cachedToken = NoToken
    /\ tokenExpiresAt = 0
    /\ serviceKey \in RawKeys
    /\ log = <<>>

NextService == CallGetServiceToken \/ ExchangeAnswer \/ ElapseService

\* The service-account module of one process, called in any order, calls
\* overlapping.
SpecService == InitService /\ [][NextService]_vars

\* ------------------------------------------------------------------
\* C28: getServiceToken and the last five minutes of a token

\* The calls of getServiceToken that ended.
ServiceCalls == {i \in 1..Len(log) : log[i].fn = "getServiceToken"}

\* The milliseconds the token has left at time t.
LeftMs(token, t) == token.issued + token.expires_in * 1000 - t

\* C28: getServiceToken never returns a token with 5 minutes or less left
\* to live: a token from the cache is returned only while now is before
\* the start of its exchange + expires_in - 300 s, a call that finds no
\* such token returns the token of a new exchange and caches it with that
\* limit; without a key that parses the call returns null; and a call that
\* throws leaves cachedToken and tokenExpiresAt as they were.
C28_NotWithinFiveMinutes ==
    \A i \in ServiceCalls :
      LET c == log[i] IN
      /\ c.did = "token" => LeftMs(c.out, c.at) > 300 * 1000
      /\ c.hit => /\ c.did = "token"
                  /\ Seconds(c.at) < c.out.started + c.out.expires_in - 300
                  /\ c.cache = c.was
      /\ (c.did = "token" /\ ~c.hit)
            => c.cache = <<c.out, c.out.started + c.out.expires_in - 300>>
      /\ c.key \in {"", "{oops"} => (c.did = "null" /\ c.cache = c.was)
      /\ c.did = "throw" => c.cache = c.was

\* A token was returned from the cache one second before its limit, and
\* the call made at the limit returned the token of a new exchange.
C28_Witness ==
    \E i, j \in ServiceCalls :
      /\ i < j
      /\ log[i].hit
      /\ Seconds(log[i].at) = log[i].out.started + log[i].out.expires_in - 301
      /\ log[j].did = "token"
      /\ ~log[j].hit
      /\ log[j].out # log[i].out

\* ------------------------------------------------------------------
\* POST /api/sheets/ensure-tab, its calls interleaved at their awaits

\* What the spreadsheet API can do with a call: serve it, or fail with
\* 500 and no effect.
ApiOutcomes(sh, call) ==
    {SheetsApi(sh, call), [status |-> 500, sheet |-> sh, data |-> FALSE]}

\* The fetch that follows the answer r to the fetch pc of POST /ensure-tab,
\* or "" when the handler answers the client.
EnsureTabNext(pc, r) ==
    IF r.status # 200 THEN ""
    ELSE CASE pc = "meta" -> IF r.data THEN "" ELSE "addSheet"
           [] pc = "addSheet" -> "putHeaders"
           [] OTHER -> ""

\* What the handler answers after the answer r to its fetch pc: the error
\* of the API, created false for a tab that exists, created true after
\* the header row was written.
EnsureTabReply(pc, r) ==
    IF r.status # 200 THEN [status |-> r.status, created |-> FALSE, sheetId |-> NaN]
    ELSE [status |-> 200, created |-> pc = "putHeaders", sheetId |-> UsersSheetId]

\* A call of the route that ended, with the fetches it made and the
\* spreadsheet as it was when the answer was sent.
EnsureTabEntry(reply, calls, sh) ==
    [fn |-> "ensure-tab", status |-> reply.status, created |-> reply.created,
     sheetId |-> reply.sheetId, calls |-> calls, sheet |-> sh]

\* POST /api/sheets/ensure-tab arrives from b with a tab name (the name of
\* the users tab, or none) and headers: it is answered 401 or 400, or its
\* handler fetches the metadata and awaits the answer.
StartEnsureTab ==
    /\ Len(log) + Len(tasks) < MaxLog
    /\ Len(tasks) < MaxTasks
    /\ \E tabName \in {"", "users"} :
         LET g == GetGoogleToken(World(NoFault), [userId |-> B])
         IN /\ store' = g.store
            /\ IF g.token = ""
               THEN /\ log' = Append(log,
                         EnsureTabEntry([status |-> 401, created |-> FALSE,
                                         sheetId |-> NaN], <<>>, sheet))
                    /\ UNCHANGED tasks
               ELSE IF tabName = ""
               THEN /\ log' = Append(log,
                         EnsureTabEntry([status |-> 400, created |-> FALSE,
                                         sheetId |-> NaN], <<>>, sheet))
                    /\ UNCHANGED tasks
               ELSE /\ tasks' = Append(tasks, [op |-> "ensure-tab", pc |-> "meta",
                                               calls |-> <<>>])
                    /\ UNCHANGED log
    /\ UNCHANGED <<adminEmail, cache, cacheTime, sheet, creds, now, ticks, resp,
                   cachedToken, tokenExpiresAt, serviceKey>>

\* The fetch a handler awaits is answered, and the handler runs up to its
\* next fetch or to its answer.
EnsureTabAnswer ==
    \E i \in 1..Len(tasks) :
      /\ tasks[i].op = "ensure-tab"
      /\ \E r \in ApiOutcomes(sheet, Call(tasks[i].pc)) :
           LET calls == Append(tasks[i].calls, [api |-> tasks[i].pc, status |-> r.status,
                                                found |-> r.data])
           IN /\ sheet' = r.sheet
              /\ IF EnsureTabNext(tasks[i].pc, r) = ""
                 THEN /\ log' = Append(log, EnsureTabEntry(EnsureTabReply(tasks[i].pc, r),
                                                           calls, r.sheet))
                      /\ tasks' = WithoutTask(i)
                 ELSE /\ tasks' = [tasks EXCEPT ![i] =
                             [@ EXCEPT !.pc = EnsureTabNext(tasks[i].pc, r),
                                       !.calls = calls]]
                      /\ UNCHANGED log
    /\ UNCHANGED <<store, adminEmail, cache, cacheTime, creds, now, ticks, resp,
                   cachedToken, tokenExpiresAt, serviceKey>>

\* b is logged in, and the spreadsheet has no users tab.
InitEnsureTab ==
    /\ store = TokenStoreSet(NoStore, B, "gB1", 0)
    /\ adminEmail = B
    /\ cache = NullCache
    /\ cacheTime = 0
    /\ sheet = [tab |-> FALSE, values |-> <<>>]
    /\ creds = NoStore
    /\ now = 0
    /\ ticks = 0
    /\ resp = Event("init")
    /\ tasks = <<>>
    /\ NoService

NextEnsureTab == StartEnsureTab \/ EnsureTabAnswer

SpecEnsureTab == InitEnsureTab /\ [][NextEnsureTab]_vars

\* ------------------------------------------------------------------
\* C29: ensure-tab creates the tab and then writes the headers

\* The calls of the route that ended.
EnsureTabCalls == {i \in 1..Len(log) : log[i].fn = "ensure-tab"}

\* The tab exists in sh and its first row holds the headers.  (The API
\* refuses a second tab of a name, so a spreadsheet never has two.)
TabWithHeaders(sh) ==
    /\ sh.tab
    /\ sh.values # <<>>
    /\ sh.values[1] = USERS_HEADERS

\* The call c found the tab when it fetched the metadata.
FoundTab(c) ==
    /\ c.calls # <<>>
    /\ c.calls[1].status = 200
    /\ c.calls[1].found

\* C29: whenever a call of ensure-tab for a tab that did not exist at
\* first returns success, the spreadsheet has the tab and its first row
\* holds the headers; and a call that finds the tab returns created =
\* false with the tab's sheetId after the one fetch of the metadata.
C29_SuccessMeansTabWithHeaders ==
    \A i \in EnsureTabCalls :
      /\ log[i].status = 200 => TabWithHeaders(log[i].sheet)
      /\ FoundTab(log[i]) => /\ log[i].status = 200
                             /\ ~log[i].created
                             /\ log[i].sheetId = UsersSheetId
                             /\ Len(log[i].calls) = 1

\* What holds of every call: one that finds the tab returns created =
\* false with the tab's sheetId after the one fetch of the metadata, one
\* that returns created = true wrote the header row itself, and no call
\* fetches again after a fetch that failed.
EnsureTabActsOnce ==
    \A i \in EnsureTabCalls :
      /\ FoundTab(log[i]) => /\ log[i].status = 200
                             /\ ~log[i].created
                             /\ log[i].sheetId = UsersSheetId
                             /\ Len(log[i].calls) = 1
      /\ log[i].created => /\ TabWithHeaders(log[i].sheet)
                           /\ Len(log[i].calls) = 3
      /\ \A k \in 1..(Len(log[i].calls) - 1) : log[i].calls[k].status = 200

\* A call added the tab and failed to write the header row; a later call,
\* made when no other was in flight, returned success for the tab, whose
\* first row is empty.
HeaderlessTabReported ==
    \E i, j \in EnsureTabCalls :
      /\ i < j
      /\ Len(log[i].calls) = 3
      /\ log[i].status = 500
      /\ log[j].status = 200
      /\ ~log[j].created
      /\ log[j].sheet.values = <<>>
      /\ tasks = <<>>

\* ------------------------------------------------------------------
\* C30: a 401 from the spreadsheet API clears the active-admin pointer

\* The step is a request whose handler made, through sheetFetch, a call
\* that the spreadsheet API answered with 401.
RosterCallUnauthorized ==
    /\ resp.status = 0
    /\ resp'.status # 0
    /\ resp'.op \notin SheetsOps
    /\ \E i \in 1..Len(resp'.calls) : resp'.calls[i].status = 401

\* The call whose outcome is r threw the error sheetFetch throws when it
\* has no admin token, before any fetch.
FailsWithNoAdmin(r) ==
    /\ r.threw
    /\ r.err = "no admin"
    /\ r.w.calls = <<>>

\* The functions of userStore that always go to the spreadsheet fail with
\* that error, isReady is false, and lookupUser resolves to null, without
\* a fetch, every identity that is no bootstrap admin.
SheetCallsFail(w) ==
    /\ FailsWithNoAdmin(RefreshCache(w))
    /\ FailsWithNoAdmin(AddUser(w, <<"n">>, "user"))
    /\ FailsWithNoAdmin(RemoveUser(w, 2, UsersSheetId))
    /\ FailsWithNoAdmin(UpdateUserRole(w, 2, "admin"))
    /\ FailsWithNoAdmin(GetUsersTabSheetId(w))
    /\ ~IsReady(w).val
    /\ \A e \in (Emails \cup {<<"n">>}) \ BOOTSTRAP_ADMINS :
         /\ ~LookupUser(w, e).threw
         /\ LookupUser(w, e).val = NotFound(e)
         /\ LookupUser(w, e).w.calls = <<>>

\* The pointer comes to be set only by a verify that resolved its identity
\* to admin, or by a refresh-google or a users route called with an admin
\* credential, and it is set to that identity.
PointerSetByAdmin ==
    (adminEmail = Empty /\ adminEmail' # Empty)
        => /\ resp'.op \in PointerSetters
           /\ adminEmail' = Requester(resp')
           /\ IF resp'.op = "verify"
              THEN Requester(resp') \in BOOTSTRAP_ADMINS
                   \/ (resp'.status = 200 /\ resp'.cred.payload.role = "admin")
              ELSE resp'.user.role = "admin"

\* C30 as stated: after a 401 to a call made through sheetFetch the
\* pointer is null, and while it is null every roster operation fails
\* with the error of sheetFetch and lookupUser denies every identity
\* that is no bootstrap admin, until an admin's request sets the pointer.
C30_RosterFailsWhilePointerNull ==
    /\ [](adminEmail = Empty
            => /\ SheetCallsFail(World(NoFault))
               /\ FailsWithNoAdmin(GetAllUsers(World(NoFault))))
    /\ [][/\ RosterCallUnauthorized => adminEmail' = Empty
          /\ PointerSetByAdmin]_vars

\* C30, amended: the same, except that getAllUsers fails only when the
\* cache is null or older than TTL_MS, and otherwise still answers from
\* the cache without a fetch.
C30_SheetCallsFailWhilePointerNull ==
    /\ [](adminEmail = Empty
            => /\ SheetCallsFail(World(NoFault))
               /\ IF CacheStale(World(NoFault))
                  THEN FailsWithNoAdmin(GetAllUsers(World(NoFault)))
                  ELSE /\ ~GetAllUsers(World(NoFault)).threw
                       /\ GetAllUsers(World(NoFault)).w.calls = <<>>)
    /\ [][/\ RosterCallUnauthorized => adminEmail' = Empty
          /\ PointerSetByAdmin]_vars

\* A users route had a call answered 401 and left the pointer null, while
\* the cache is within its TTL.
C30_Witness ==
    /\ resp.op \in RosterRoutes
    /\ \E i \in 1..Len(resp.calls) : resp.calls[i].status = 401
    /\ adminEmail = Empty
    /\ ~CacheStale(World(NoFault))

\* ------------------------------------------------------------------
\* sheetFetch, its fetches in flight while the pointer is set by others

\* A function of userStore calls sheetFetch for the metadata: it throws
\* for want of an admin token, or sends the fetch with the token of the
\* admin the pointer names and awaits the answer.
StartSheetFetch ==
    /\ Len(log) + Len(tasks) < MaxLog
    /\ Len(tasks) < MaxTasks
    /\ LET g == AdminToken(World(NoFault))
       IN /\ store' = g.store
          /\ IF g.token = ""
             THEN /\ log' = Append(log, [fn |-> "sheetFetch", sentFor |-> adminEmail,
                                         token |-> "", status |-> 0,
                                         was |-> adminEmail, pointer |-> adminEmail,
                                         live |-> FALSE])
                  /\ UNCHANGED tasks
             ELSE /\ tasks' = Append(tasks, [op |-> "sheetFetch", sentFor |-> adminEmail,
                                             token |-> g.token])
                  /\ UNCHANGED log
    /\ UNCHANGED <<adminEmail, cache, cacheTime, sheet, creds, now, ticks, resp,
                   cachedToken, tokenExpiresAt, serviceKey>>

\* A users route is called with the admin credential of e: it registers e
\* as the active admin when a token of e is stored.
CallRegisterAdmin ==
    /\ \E e \in Emails :
         /\ adminEmail' = RegisterAdmin(World(NoFault), [userId |-> e]).adminEmail
         /\ store' = RegisterAdmin(World(NoFault), [userId |-> e]).store
         /\ adminEmail' # adminEmail
    /\ UNCHANGED <<cache, cacheTime, sheet, creds, now, ticks, resp, tasks, svcVars>>

\* What the API can answer a fetch of the metadata: the metadata, or 401
\* when it no longer accepts the token.
MetaOutcomes(sh) ==
    {SheetsApi(sh, Call("meta")), [status |-> 401, sheet |-> sh, data |-> FALSE]}

\* A fetch in flight is answered and sheetFetch runs to its end.
SheetFetchAnswered ==
    \E i \in 1..Len(tasks) :
      /\ tasks[i].op = "sheetFetch"
      /\ \E r \in MetaOutcomes(sheet) :
           LET u == UpstreamAnswer(World(NoFault), Call("meta"), tasks[i].token, r)
               g == AdminToken(World(NoFault))
           IN /\ adminEmail' = SheetFetchAnswer(u).w.adminEmail
              /\ log' = Append(log, [fn |-> "sheetFetch", sentFor |-> tasks[i].sentFor,
                                     token |-> tasks[i].token, status |-> r.status,
                                     was |-> adminEmail,
                                     pointer |-> SheetFetchAnswer(u).w.adminEmail,
                                     live |-> g.token # ""])
      /\ tasks' = WithoutTask(i)
    /\ UNCHANGED <<store, cache, cacheTime, sheet, creds, now, ticks, resp,
                   cachedToken, tokenExpiresAt, serviceKey>>

\* Two admins are logged in, b being the active one.
InitPointer ==
    /\ store = TokenStoreSet(TokenStoreSet(NoStore, B, "gB1", 0), U, "gU1", 0)
    /\ adminEmail = B
    /\ cache = NullCache
    /\ cacheTime = 0
    /\ sheet = [tab |-> TRUE, values |-> <<USERS_HEADERS, [email |-> U, role |-> "admin"]>>]
    /\ creds = NoStore
    /\ now = 0
    /\ ticks = 0
    /\ resp = Event("init")
    /\ tasks = <<>>
    /\ NoService

NextPointer == StartSheetFetch \/ CallRegisterAdmin \/ SheetFetchAnswered

SpecPointer == InitPointer /\ [][NextPointer]_vars

\* ------------------------------------------------------------------
\* C31: a 401 only invalidates the admin whose token produced it

\* The fetches of sheetFetch that were answered.
FetchesAnswered == {i \in 1..Len(log) : log[i].fn = "sheetFetch" /\ log[i].status # 0}

\* The fetch of entry c was sent with the token of one admin and answered
\* 401 when the pointer named another admin, whose token is live.
StaleUnauthorized(c) ==
    /\ c.status = 401
    /\ c.was # Empty
    /\ c.was # c.sentFor
    /\ c.live

\* C31: a 401 for a fetch sent with one admin's token, answered after the
\* pointer was set to another admin with a live token, leaves the pointer
\* on that admin.
C31_StaleUnauthorizedKeepsPointer ==
    \A i \in FetchesAnswered : StaleUnauthorized(log[i]) => log[i].pointer = log[i].was

\* What holds of every answer: a 401 leaves the pointer null, whoever it
\* named; any other answer leaves the pointer as it was.
UnauthorizedClearsPointer ==
    \A i \in FetchesAnswered :
      log[i].pointer = IF log[i].status = 401 THEN Empty ELSE log[i].was

\* A fetch sent with b's token was answered 401 after u became the active
\* admin, and the pointer is null although u's token is stored and live:
\* the next roster call fails for want of an admin.
StalePointerCleared ==
    /\ Len(log) >= 2
    /\ StaleUnauthorized(log[Len(log) - 1])
    /\ log[Len(log) - 1].sentFor = B
    /\ log[Len(log) - 1].was = U
    /\ log[Len(log)].status = 0
    /\ log[Len(log)].was = Empty
    /\ TokenStoreGet(store, U, now).token = "gU1"

\* ------------------------------------------------------------------
\* C32: the users routes do nothing for a caller who is no admin

\* The step is a request of a users route with a valid credential whose
\* role claim is not admin.
NonAdminRosterRequest ==
    /\ resp.status = 0
    /\ resp'.op \in RosterRoutes
    /\ resp'.authed
    /\ resp'.user.role # "admin"

\* C32: a request of a users route with a valid credential whose role is
\* not admin is answered 403, makes no call to the spreadsheet API, and
\* leaves the active-admin pointer, the roster cache, the token store and
\* the spreadsheet as they were.
C32_NonAdminChangesNothing ==
    [][NonAdminRosterRequest
         => /\ resp'.status = 403
            /\ resp'.calls = <<>>
            /\ UNCHANGED <<adminEmail, cache, cacheTime, store, sheet>>]_vars

\* u, whose credential says user, was answered 403 by a users route while
\* its token entry is stored and past its expiry, and another identity is
\* the active admin.
C32_Witness ==
    /\ resp.op \in RosterRoutes
    /\ resp.authed
    /\ resp.user.role = "user"
    /\ resp.status = 403
    /\ resp.user.userId \in DOMAIN store
    /\ now > store[resp.user.userId].expiresAt
    /\ adminEmail # resp.user.userId

\* ------------------------------------------------------------------
\* POST /api/auth/users, its calls interleaved between getAllUsers and
\* addUser

\* The bodies admins post: a new identity, one the roster lists, and a
\* bootstrap admin.
PostedUsers == {<<"n">>, <<" ", "U">>, <<"B", " ">>}

\* b's claims in its credential.
AdminB == [userId |-> B, name |-> B, email |-> B, picture |-> Empty, role |-> "admin"]

\* What a call of POST /users that ended is logged with: the status it
\* answered, the identity posted, and the calls it made to the API.
PostUsersEntry(e, out, calls) ==
    [fn |-> "users POST", e |-> e, status |-> out.status, calls |-> calls]

\* The world w becomes the state of the server.
Becomes(w) ==
    /\ store' = w.store
    /\ adminEmail' = w.adminEmail
    /\ cache' = w.cache
    /\ cacheTime' = w.cacheTime
    /\ sheet' = w.sheet

\* POST /api/auth/users arrives from b: the handler runs through await
\* getAllUsers() and the test of the list.  It answers 400, 409 or 500, or
\* goes on to await addUser.
StartPostUsers ==
    /\ Len(log) + Len(tasks) < MaxLog
    /\ Len(tasks) < MaxTasks
    /\ Len(sheet.values) <= MaxRows + 2
    /\ \E email \in PostedUsers :
         LET w1 == RegisterAdmin(World(NoFault), AdminB)
             e == NormEmail(email)
             existing == GetAllUsers(w1)
             out == PostUsers(World(NoFault), AdminB, [email |-> email, role |-> "user"])
             listed == \E i \in 1..Len(existing.val) : existing.val[i].email = e
         IN IF e \in BOOTSTRAP_ADMINS
            THEN /\ Becomes(w1)
                 /\ log' = Append(log, PostUsersEntry(e, out, <<>>))
                 /\ UNCHANGED tasks
            ELSE IF existing.threw \/ listed
            THEN /\ Becomes(existing.w)
                 /\ log' = Append(log, PostUsersEntry(e, out, existing.w.calls))
                 /\ UNCHANGED tasks
            ELSE /\ Becomes(existing.w)
                 /\ tasks' = Append(tasks, [op |-> "users POST", pc |-> "addUser",
                                            e |-> e, calls |-> existing.w.calls])
                 /\ UNCHANGED log
    /\ UNCHANGED <<creds, now, ticks, resp, cachedToken, tokenExpiresAt, serviceKey>>

\* A handler that found its identity not listed runs addUser, reads the
\* list again and answers.
PostUsersAdd ==
    \E i \in 1..Len(tasks) :
      /\ tasks[i].op = "users POST"
      /\ LET out == UsersAfter(AddUser(World(NoFault), tasks[i].e, "user"))
         IN /\ Becomes(out.w)
            /\ log' = Append(log, PostUsersEntry(tasks[i].e, out,
                                                 tasks[i].calls \o out.w.calls))
      /\ tasks' = WithoutTask(i)
      /\ UNCHANGED <<creds, now, ticks, resp, cachedToken, tokenExpiresAt, serviceKey>>

\* b is logged in and the roster lists u.
InitPostUsers ==
    /\ store = TokenStoreSet(NoStore, B, "gB1", 0)
    /\ adminEmail = B
    /\ cache = NullCache
    /\ cacheTime = 0
    /\ sheet = [tab |-> TRUE, values |-> <<USERS_HEADERS, [email |-> U, role |-> "user"]>>]
    /\ creds = NoStore
    /\ now = 0
    /\ ticks = 0
    /\ resp = Event("init")
    /\ tasks = <<>>
    /\ NoService

NextPostUsers == StartPostUsers \/ PostUsersAdd

SpecPostUsers == InitPostUsers /\ [][NextPostUsers]_vars

\* ------------------------------------------------------------------
\* C33: POST /api/auth/users never gives an email two rows

\* The rows of the roster that hold the email e.
RosterRowsOf(e) == {i \in 1..Len(RosterRows) : RosterRows[i].email = e}

\* The calls of POST /users that ended.
PostUsersCalls == {i \in 1..Len(log) : log[i].fn = "users POST"}

Appends(calls) == {k \in 1..Len(calls) : calls[k].api = "append"}

\* C33: whatever the interleaving of POST /users requests, the roster
\* holds at most one row for an email; a request for a bootstrap admin is
\* answered 400 and every request answered 400 or 409 appended no row.
C33_OneRowPerEmail ==
    /\ \A e \in {NormEmail(p) : p \in PostedUsers} : Cardinality(RosterRowsOf(e)) <= 1
    /\ \A i \in PostUsersCalls :
         /\ log[i].e \in BOOTSTRAP_ADMINS => log[i].status = 400
         /\ log[i].status \in {400, 409} => Appends(log[i].calls) = {}

\* What holds of every call under every interleaving: a request for a
\* bootstrap admin is answered 400, a request answered 400 or 409 appended
\* no row, and a request appends at most one row.
PostUsersRefusals ==
    \A i \in PostUsersCalls :
      /\ log[i].e \in BOOTSTRAP_ADMINS => log[i].status = 400
      /\ log[i].status \in {400, 409} => Appends(log[i].calls) = {}
      /\ Cardinality(Appends(log[i].calls)) <= 1

\* Requests served one after the other: a POST /users leaves every email
\* that had at most one row with at most one row, and one answered 400 or
\* 409 leaves the spreadsheet as it was.
PostUsersOneAtATime ==
    [][resp'.op = "users POST"
         => /\ \A e \in Emails \cup {<<"n">>} :
                 (Cardinality(RosterRowsOf(e)) <= 1) => (Cardinality(RosterRowsOf(e))' <= 1)
            /\ resp'.status \in {400, 409} => sheet' = sheet]_vars

\* Two requests for n both found n not listed and both answered 200: the
\* roster holds two rows for n.
TwoRowsForOneEmail ==
    /\ Cardinality(RosterRowsOf(<<"n">>)) = 2
    /\ \E i, j \in PostUsersCalls :
         /\ i < j
         /\ log[i].e = <<"n">> /\ log[i].status = 200
         /\ log[j].e = <<"n">> /\ log[j].status = 200

\* ------------------------------------------------------------------
\* The users routes called by two admins, one request at a time

\* u's claims in a credential issued while the roster listed u as admin.
AdminU == [userId |-> U, name |-> U, email |-> U, picture |-> Empty, role |-> "admin"]

Admins == {AdminB, AdminU}

\* The list in the body of the answer out, or none.
ListIn(out) ==
    IF out.status = 200 /\ out.body.sheetReady THEN out.body.users ELSE <<>>

\* The position in the log of the last answer that gave c a list before
\* position i (0 when there is none).
LastListing(c, i) ==
    LET given == {j \in 1..(i - 1) : log[j].by = c /\ log[j].users # <<>>}
    IN IF given = {} THEN 0 ELSE CHOOSE j \in given : \A k \in given : k <= j

\* The entries with a row of their own in the list c was last given.
Listed(c) ==
    LET j == LastListing(c, Len(log) + 1)
    IN IF j = 0 THEN {}
       ELSE {log[j].users[k] : k \in {k \in 1..Len(log[j].users) :
                                        log[j].users[k].rowIndex >= 2}}

\* The email of the roster entry read from row rowIndex of the spreadsheet.
EmailAtRow(rowIndex) ==
    IF \E k \in 1..Len(RosterRows) : RosterRows[k].rowIndex = rowIndex
    THEN RosterRows[CHOOSE k \in 1..Len(RosterRows) : RosterRows[k].rowIndex = rowIndex].email
    ELSE Empty

\* GET /api/auth/users by an admin.
CallGetUsers ==
    /\ Len(log) < MaxLog
    /\ \E c \in Admins :
         LET out == GetUsers(World(NoFault), c)
         IN /\ Becomes(out.w)
            /\ log' = Append(log, [fn |-> "users GET", by |-> c.userId, row |-> 0,
                                   chose |-> Empty, hit |-> Empty,
                                   status |-> out.status, users |-> ListIn(out)])
    /\ UNCHANGED <<creds, now, ticks, resp, tasks, cachedToken, tokenExpiresAt, serviceKey>>

\* DELETE /api/auth/users/:rowIndex by an admin, for an entry of the list
\* it was last given, with the rowIndex the list shows.
CallDeleteUsers ==
    /\ Len(log) < MaxLog
    /\ \E c \in Admins : \E x \in Listed(c.userId) :
         LET out == DeleteUsers(World(NoFault), c, x.rowIndex, UsersSheetId)
         IN /\ Becomes(out.w)
            /\ log' = Append(log, [fn |-> "users DELETE", by |-> c.userId,
                                   row |-> x.rowIndex, chose |-> x.email,
                                   hit |-> EmailAtRow(x.rowIndex),
                                   status |-> out.status, users |-> ListIn(out)])
    /\ UNCHANGED <<creds, now, ticks, resp, tasks, cachedToken, tokenExpiresAt, serviceKey>>

\* PUT /api/auth/users/:rowIndex by an admin, likewise.
CallPutUsers ==
    /\ Len(log) < MaxLog
    /\ \E c \in Admins : \E x \in Listed(c.userId) :
         LET out == PutUsers(World(NoFault), c, x.rowIndex, "admin")
         IN /\ Becomes(out.w)
            /\ log' = Append(log, [fn |-> "users PUT", by |-> c.userId,
                                   row |-> x.rowIndex, chose |-> x.email,
                                   hit |-> EmailAtRow(x.rowIndex),
                                   status |-> out.status, users |-> ListIn(out)])
    /\ UNCHANGED <<creds, now, ticks, resp, tasks, cachedToken, tokenExpiresAt, serviceKey>>

\* POST /api/auth/users by an admin, for an identity not yet listed.
CallPostUsers ==
    /\ Len(log) < MaxLog
    /\ Len(sheet.values) <= MaxRows + 2
    /\ \E c \in Admins :
         LET out == PostUsers(World(NoFault), c, [email |-> <<"m">>, role |-> "user"])
         IN /\ Becomes(out.w)
            /\ log' = Append(log, [fn |-> "users POST", by |-> c.userId, row |-> 0,
                                   chose |-> Empty, hit |-> Empty,
                                   status |-> out.status, users |-> ListIn(out)])
    /\ UNCHANGED <<creds, now, ticks, resp, tasks, cachedToken, tokenExpiresAt, serviceKey>>

\* Admins b and u are logged in; the roster lists u and n.
InitRowIndex ==
    /\ store = TokenStoreSet(TokenStoreSet(NoStore, B, "gB1", 0), U, "gU1", 0)
    /\ adminEmail = B
    /\ cache = NullCache
    /\ cacheTime = 0
    /\ sheet = [tab |-> TRUE,
                values |-> <<USERS_HEADERS, [email |-> U, role |-> "admin"],
                             [email |-> <<"n">>, role |-> "user"]>>]
    /\ creds = NoStore
    /\ now = 0
    /\ ticks = 0
    /\ resp = Event("init")
    /\ tasks = <<>>
    /\ NoService

NextRowIndex == CallGetUsers \/ CallDeleteUsers \/ CallPutUsers \/ CallPostUsers

SpecRowIndex == InitRowIndex /\ [][NextRowIndex]_vars

\* ------------------------------------------------------------------
\* C34: DELETE and PUT /users/:rowIndex act on the entry selected

\* The DELETE and PUT requests that were answered 200.
RowOperations ==
    {i \in 1..Len(log) : log[i].fn \in {"users DELETE", "users PUT"} /\ log[i].status = 200}

\* C34: the row a DELETE or PUT /users/:rowIndex removes or updates holds
\* the entry that the list last given to the caller showed at that
\* rowIndex, whatever requests of other admins came in between.
C34_ActsOnSelectedEntry ==
    \A i \in RowOperations : log[i].hit = log[i].chose

\* No request of another admin came between the list c acted on at
\* position i and the request at i.
Uninterrupted(i) ==
    \A k \in (LastListing(log[i].by, i) + 1)..(i - 1) : log[k].by = log[i].by

\* What holds: a DELETE or PUT with no request of another admin since the
\* caller's list acts on the entry selected.
ActsOnSelectedWhenAlone ==
    \A i \in RowOperations : Uninterrupted(i) => log[i].hit = log[i].chose

\* b was shown n at row 3; u then removed row 2; b's DELETE of row 2,
\* where its list showed u, was answered 200 and removed n.
RemovedAnotherEntry ==
    \E i \in RowOperations :
      /\ log[i].fn = "users DELETE"
      /\ log[i].by = B
      /\ log[i].chose = U
      /\ log[i].hit = <<"n">>
      /\ ~InRoster(<<"n">>)

\* ------------------------------------------------------------------
\* The routes that take a rowIndex, called with the parameter as text

\* The value of a digit in base 10 or 16, -1 for any other character.
DigitVal(c, base) ==
    CASE c = "0" -> 0 [] c = "1" -> 1 [] c = "2" -> 2 [] c = "3" -> 3
      [] c = "9" -> 9
      [] c = "a" -> IF base = 16 THEN 10 ELSE -1
      [] OTHER -> -1

\* The value of the longest prefix of digits of s, acc being the value of
\* the digits read and n their number; NaN when there is no digit.
RECURSIVE ParseDigits(_, _, _, _)
ParseDigits(s, base, acc, n) ==
    IF s = <<>> \/ DigitVal(Head(s), base) < 0
    THEN IF n = 0 THEN NaN ELSE acc
    ELSE ParseDigits(Tail(s), base, acc * base + DigitVal(Head(s), base), n + 1)

\* The number after the sign: in base 16 after a 0x prefix when no radix
\* is given (radix 0), and when the radix is 10 the digits up to the x.
ParseUnsigned(s, radix) ==
    IF radix = 0 /\ Len(s) >= 2 /\ s[1] = "0" /\ s[2] \in {"x", "X"}
    THEN ParseDigits(SubSeq(s, 3, Len(s)), 16, 0, 0)
    ELSE ParseDigits(s, 10, 0, 0)

\* parseInt(string, radix): leading white space is skipped, a sign is
\* read, then the digits up to the first character that is none.
ParseInt(string, radix) ==
    LET s == trimStart(string)
    IN IF s # <<>> /\ s[1] = "-"
       THEN IF ParseUnsigned(Tail(s), radix) = NaN THEN NaN
            ELSE 0 - ParseUnsigned(Tail(s), radix)
       ELSE IF s # <<>> /\ s[1] = "+" THEN ParseUnsigned(Tail(s), radix)
       ELSE ParseUnsigned(s, radix)

\* DELETE /api/sheets/row/:rowIndex with the parameter as the client wrote
\* it: const rowNum = parseInt(rowIndex, 10)
SheetsRowDeleteParam(w, user, rowIndex) ==
    SheetsRowDelete(w, user, ParseInt(rowIndex, 10), UsersSheetId)

\* The texts clients put in the place of :rowIndex.
RowParams ==
    {<<"1">>, <<"2">>, <<"0">>, <<"a">>, <<>>, <<" ", "3">>, <<"-", "3">>, <<"+", "1">>,
     <<"1", ".", "9">>, <<"1", "e", "3">>, <<"0", "x", "2">>, <<"2", "a">>, <<"1", "0">>}

\* The claims of n, a roster user, in its credential.
UserN == [userId |-> <<"n">>, name |-> <<"n">>, email |-> <<"n">>,
          picture |-> Empty, role |-> "user"]

\* The callers: admin b and user n, who have a token stored, and admin u,
\* who has none.
RowCallers == {AdminB, AdminU, UserN}

MaxRowCalls == 2

\* What a request of a row route is logged with: the route, the caller,
\* the parameter and the number parseInt made of it, whether a token of
\* the caller was stored, and the status and upstream calls of the answer.
RowEntry(fn, c, rowIndex, radix, out) ==
    [fn |-> fn, by |-> c, param |-> rowIndex, rowNum |-> ParseInt(rowIndex, radix),
     hadToken |-> GetGoogleToken(World(NoFault), c).token # "",
     status |-> out.status, calls |-> out.w.calls]

\* The request with answer out is served.
ServeRow(entry, out) ==
    /\ Len(log) < MaxRowCalls
    /\ Becomes(out.w)
    /\ log' = Append(log, entry)
    /\ UNCHANGED <<creds, now, ticks, resp, tasks, cachedToken, tokenExpiresAt, serviceKey>>

\* PUT /api/sheets/row/:rowIndex with values for the users tab.
CallSheetsRowPut ==
    \E c \in RowCallers : \E rowIndex \in RowParams :
      LET out == SheetsRowPut(World(NoFault), c, ParseInt(rowIndex, 10),
                              [hasValues |-> TRUE, row |-> [email |-> U, role |-> "admin"],
                               sheetName |-> "users"])
      IN ServeRow(RowEntry("sheets/row PUT", c, rowIndex, 10, out), out)

\* DELETE /api/sheets/row/:rowIndex?sheetId=<users tab>
CallSheetsRowDelete ==
    \E c \in RowCallers : \E rowIndex \in RowParams :
      LET out == SheetsRowDeleteParam(World(NoFault), c, rowIndex)
      IN ServeRow(RowEntry("sheets/row DELETE", c, rowIndex, 10, out), out)

\* PUT /api/auth/users/:rowIndex: const rowNum = parseInt(req.params.rowIndex)
CallUsersRowPut ==
    \E c \in RowCallers : \E rowIndex \in RowParams :
      LET out == PutUsers(World(NoFault), c, ParseInt(rowIndex, 0), "admin")
      IN ServeRow(RowEntry("users PUT", c, rowIndex, 0, out), out)

\* DELETE /api/auth/users/:rowIndex?sheetId=<users tab>
CallUsersRowDelete ==
    \E c \in RowCallers : \E rowIndex \in RowParams :
      LET out == DeleteUsers(World(NoFault), c, ParseInt(rowIndex, 0), UsersSheetId)
      IN ServeRow(RowEntry("users DELETE", c, rowIndex, 0, out), out)

\* b and n are logged in, u's credential outlived its token; the roster
\* lists u and n.
InitRows ==
    /\ store = TokenStoreSet(TokenStoreSet(NoStore, B, "gB1", 0), <<"n">>, "gN", 0)
    /\ adminEmail = B
    /\ cache = NullCache
    /\ cacheTime = 0
    /\ sheet = [tab |-> TRUE,
                values |-> <<USERS_HEADERS, [email |-> U, role |-> "admin"],
                             [email |-> <<"n">>, role |-> "user"]>>]
    /\ creds = NoStore
    /\ now = 0
    /\ ticks = 0
    /\ resp = Event("init")
    /\ tasks = <<>>
    /\ NoService

NextRows == CallSheetsRowPut \/ CallSheetsRowDelete \/ CallUsersRowPut \/ CallUsersRowDelete

SpecRows == InitRows /\ [][NextRows]_vars

\* ------------------------------------------------------------------
\* C35: no update or delete targets row 1

\* The calls that update or delete a row.
RowWrites(calls) ==
    {k \in 1..Len(calls) : calls[k].api \in {"putRow", "deleteRow", "putRole"}}

\* The rowIndex of the request is not a number, or is below 2.
BadRowIndex(c) == c.rowNum = NaN \/ c.rowNum < 2

\* No call of any request updates or deletes a row below 2, and the
\* header row is as it was.
HeaderRowUntouched ==
    /\ \A i \in 1..Len(log) : \A k \in RowWrites(log[i].calls) : log[i].calls[k].row >= 2
    /\ sheet.values[1] = USERS_HEADERS

\* C35 as stated: no update or delete targets row 1, and a rowIndex that
\* is not a number or is below 2 yields 400 without an upstream call.
C35_BadRowIndexYields400 ==
    /\ HeaderRowUntouched
    /\ \A i \in 1..Len(log) :
         BadRowIndex(log[i]) => (log[i].status = 400 /\ log[i].calls = <<>>)

\* The status a row route answers before it looks at the rowIndex: 401
\* on a proxy route when the caller has no token stored, 403 on a users
\* route when the caller is no admin.
GateStatus(c) ==
    IF c.fn \in SheetsOps
    THEN IF c.hadToken THEN 0 ELSE 401
    ELSE IF c.by.role = "admin" THEN 0 ELSE 403

\* C35, amended: no update or delete targets row 1, and a rowIndex that
\* is not a number or is below 2 makes no upstream call and yields 400,
\* unless the route answers 401 for want of a Google token or 403 for
\* want of the admin role, which it tests first.
C35_BadRowIndexMakesNoCall ==
    /\ HeaderRowUntouched
    /\ \A i \in 1..Len(log) :
         BadRowIndex(log[i])
            => /\ log[i].calls = <<>>
               /\ log[i].status = IF GateStatus(log[i]) # 0 THEN GateStatus(log[i]) ELSE 400

\* All of it happened: a request for row "1" answered 400, one for row
\* "0x2" forwarded to row 2 by a users route and refused by a proxy
\* route.
C35_Witness ==
    /\ Len(log) = 2
    /\ log[1].fn = "users PUT" /\ log[1].param = <<"0", "x", "2">>
    /\ log[1].status = 200
    /\ \E k \in RowWrites(log[1].calls) : log[1].calls[k].row = 2
    /\ log[2].fn = "sheets/row DELETE" /\ log[2].param = <<"0", "x", "2">>
    /\ log[2].status = 400 /\ log[2].hadToken /\ log[2].calls = <<>>

\* ------------------------------------------------------------------
\* C36: a proxy route sends the caller's own token

\* The token tokenStore.get returns now for the identity e ("" for null).
LiveToken(e) == TokenStoreGet(store, e, now).token

\* The step is a request of a proxy route whose credential was accepted.
ProxyRequest ==
    /\ resp.status = 0
    /\ resp'.op \in SheetsOps
    /\ resp'.authed

\* C36: every call a proxy route sends upstream carries the token stored
\* for the subject of the caller's credential, and a caller for whom none
\* is stored is answered 401 GOOGLE_TOKEN_EXPIRED without an upstream call.
C36_ProxySendsOwnToken ==
    [][ProxyRequest
         => /\ \A k \in 1..Len(resp'.calls) :
                 /\ LiveToken(resp'.user.userId) # ""
                 /\ resp'.calls[k].token = LiveToken(resp'.user.userId)
            /\ LiveToken(resp'.user.userId) = ""
                 => /\ resp'.status = 401
                    /\ CodeOf(resp'.body) = "GOOGLE_TOKEN_EXPIRED"
                    /\ resp'.calls = <<>>]_vars

\* u's proxy request went upstream with u's token while b is the active
\* admin and b's token, a different one, is stored as well.
C36_Witness ==
    /\ resp.op \in SheetsOps
    /\ resp.authed
    /\ resp.user.userId = U
    /\ resp.calls # <<>>
    /\ resp.calls[1].token = "gU1"
    /\ adminEmail = B
    /\ LiveToken(B) = "gB1"

\* -------------------------------------------------------------- C37

\* The world a handler would run in after the step, no upstream call failing.
WorldAfter ==
    [store |-> store', adminEmail |-> adminEmail', cache |-> cache',
     cacheTime |-> cacheTime', sheet |-> sheet', now |-> now',
     calls |-> <<>>, fault |-> NoFault]

\* The bodies with which identity e can ask for a credential.
LoginBodies(e) ==
    {b \in VerifyBodies : /\ b.googleAccessToken.type = "string"
                          /\ b.googleAccessToken.str \in GTokens
                          /\ IdentityOf(b.googleAccessToken) = e}

\* The outcome of a verify in world w, the identity endpoint accepting the
\* token: the status answered and the role of the credential issued.
Login(w, b) ==
    [status |-> Verify(w, b, "ok").status,
     role |-> Verify(w, b, "ok").cred.payload.role]

\* A logout was answered with 200.
LogoutDone == resp.status = 0 /\ resp'.op = "logout" /\ resp'.status = 200

\* What a logout does to the process state: the caller's entry of the token
\* store goes, the other entries, the pointer and the cache stay.
LogoutFrame ==
    /\ store' = Remove(store, resp'.user.userId)
    /\ UNCHANGED <<adminEmail, cache, cacheTime, sheet>>

\* C37 as stated: a logout removes only the caller's token entry, leaves the
\* active-admin pointer and the roster cache unchanged, and a verify of any
\* other identity has the same outcome after it as before it.
C37_LogoutAffectsOnlyCaller ==
    [][LogoutDone
        => /\ LogoutFrame
           /\ \A e \in Emails \ {resp'.user.userId} :
                \A b \in LoginBodies(e) :
                    Login(WorldAfter, b) = Login(World(NoFault), b)]_vars

\* C37 amended: a logout removes only the caller's token entry and leaves
\* the pointer and the cache unchanged; a verify of another identity has
\* the same outcome after it as before it, except that after a logout of
\* the active admin every identity outside the bootstrap list is denied
\* with 403.
C37_LogoutOfAdminDeniesRoster ==
    [][LogoutDone
        => /\ LogoutFrame
           /\ \A e \in Emails \ {resp'.user.userId} :
                \A b \in LoginBodies(e) :
                    IF resp'.user.userId = adminEmail /\ e \notin BOOTSTRAP_ADMINS
                    THEN Login(WorldAfter, b) = [status |-> 403, role |-> ""]
                    ELSE Login(WorldAfter, b) = Login(World(NoFault), b)]_vars

\* u, on the roster and holding a token from an earlier verify, would be
\* denied now: b, the active admin, has just logged out.
C37_Witness ==
    /\ resp.op = "logout"
    /\ resp.status = 200
    /\ resp.user.userId = B
    /\ adminEmail = B
    /\ InRoster(U)
    /\ U \in DOMAIN store
    /\ \A b \in LoginBodies(U) : Login(World(NoFault), b).status = 403

====
